---- MODULE Spec2Model ----
(***************************************************************************)
(* Drowsiness inference and alerting engine of src/app/page.tsx            *)
(* (DrowsinessDetectionPage).                                              *)
(*                                                                         *)
(* Units.  Time is in milliseconds, as Date.now().  An eye aspect ratio is *)
(* kept in hundredths (0.25 is 25), so that every comparison and every     *)
(* quotient of analyzeDrowsinessPattern is exact integer arithmetic.  A    *)
(* drowsiness score is the fraction num/den; the score NaN is 0/0.          *)
(*                                                                         *)
(* React.  A state variable (useState) holds the value of the latest       *)
(* render.  A useCallback instance reads the values of the render that     *)
(* created it: detectFaceAndEyes reschedules ITSELF (line 777), so a       *)
(* running detection loop keeps the isStreaming, config, alertState.level  *)
(* and lastAlertTime of the render whose startCamera call installed it     *)
(* (lines 778, 811-813).  These captured values are the field cap of a     *)
(* loop.  Functional updates (setX(prev => ...)) and refs read the latest  *)
(* value.                                                                  *)
(***************************************************************************)
EXTENDS Integers, Sequences, FiniteSets

(* ---------------------------------------------------------------- bounds *)
\* Date.now() when the page is constructed.
StartTime == 100000
\* Date.now() never exceeds StartTime + MaxElapsed in a checked run.
MaxElapsed == 7000
\* Detection loops (detectFaceAndEyes call chains) alive at one time.
MaxLoops == 2
\* Clicks on the controls (start, stop, test alert, dismiss, settings).
MaxClicks == 3
\* Frames with a face that are processed.
MaxFrames == 2

\* Frame-to-frame and click-to-click delays the clock advances by.
Deltas == {3000}
\* Averaged eye aspect ratios (hundredths) a detected face yields.
EarInputs == {5, 60}
\* Frame-to-frame delays of the engine runs: around the 500 ms blink limit and
\* the 3000 ms sustained-closure limit.
EngineDeltas == {1, 2999}
\* Eye aspect ratios of the engine runs: deeply closed, just closed, open.
EngineEars == {5, 20, 60}
\* Clicks and processed frames of an engine run.
MaxEngineClicks == 3
MaxEngineFrames == 4
\* Clicks and processed frames of a run that restarts the camera.
MaxRestartClicks == 5
MaxRestartFrames == 3
\* Detection loops alive at one time in a run that restarts the camera.
MaxRestartLoops == 1
\* Eye aspect ratios of the restart runs: deeply closed, open.
RestartEars == {5, 60}
\* Scripted runs: clicks, and the frames of the run that fills and evicts the
\* history buffer, of the run that reaches 15 blinks at an average EAR equal
\* to the threshold, and of the run over a window of 8 frames.
MaxLongClicks == 3
EvictionFrames == 103
ScoreFrames == 31
WindowFrames == 10
\* The frame of the eviction run after which a minute may pass.
LongPauseFrame == 4
\* Positions of the sensitivity slider that select a scripted run.
LongSensitivities == {1, 4}
\* Processed frames of a run with degenerate eye point sets.
MaxDegenerateFrames == 4
\* Positions of the EAR-threshold slider (min 0.15, max 0.35) that are tried.
ThresholdInputs == {15}
\* Positions of the sensitivity slider (min 1, max 10) that are tried.
SensitivityInputs == {1}
\* Clicks of a run that opens and ends sessions beyond the archive's capacity.
MaxArchiveClicks == 106
\* Clicks and processed frames of a run that records beyond the capacity of
\* the session's histories.
MaxRecordClicks == 2
RecordFrames == 1002
\* Clicks and processed frames of a run over several sessions.
MaxSessionClicks == 5
MaxSessionFrames == 3
\* Detection loops alive at one time in a run over several sessions.
MaxSessionLoops == 1
\* Clicks and processed frames of a run in which the alert sink may throw.
MaxSinkClicks == 3
MaxSinkFrames == 3
\* Frames with a face of a run that is given landmarks.
MaxLandmarkFrames == 2
\* Clicks of a run that reconfigures the page.
MaxConfigClicks == 6
\* Arguments of updateEARThreshold (hundredths) and updateSensitivity in the
\* reconfiguration runs: the ends of the sliders' ranges and values outside.
ConfigThresholds == {-5, 15, 35, 50}
ConfigSensitivities == {0, 1, 10, 11}
\* Eye aspect ratios of the session runs: deeply closed, open.
SessionEars == {5, 60}

(* ------------------------------------------------------ program constants *)
null == -1
Levels == {"low", "medium", "high", "critical"}

DefaultEarThreshold == 25
DefaultConsecutiveFrames == 10
DefaultBlinkThreshold == 20
DefaultAlertCooldown == 3000
DefaultMaxHistoryLength == 100
MaxDataPoints == 300
SessionHistoryCap == 1000
SessionArchiveCap == 50
BlinkMaxDuration == 500
SustainedClosureMin == 3000
BlinkWindow == 60000
NormalBlinkRate == 15
BlinkRefractory == 200
\* calculateEyeAspectRatio (lines 493-505) on degenerate point sets: 0 for
\* fewer than 6 points; the quotient 0/0 (NaN) when all the points coincide;
\* the quotient x/0 (Infinity) when only the two corner points coincide.  NaN
\* is a value outside the ratios, compared and added by the operators below;
\* Infinity is a value above every ratio, sum and threshold of a run.
ShortEar == 0
NaN == -100
Infinity == 1000000
\* calculateMouthAspectRatio (lines 507-524) on a set of 6 or 7 points: the
\* read of mouthPoints[6].x (line 512) or mouthPoints[7].x (line 515) throws
\* a TypeError.
TypeError == -200

DefaultConfig ==
  [earThreshold |-> DefaultEarThreshold,
   consecutiveFrames |-> DefaultConsecutiveFrames,
   blinkThreshold |-> DefaultBlinkThreshold,
   alertCooldown |-> DefaultAlertCooldown]

EmptyHistory ==
  [earValues |-> <<>>, blinkStates |-> <<>>, timestamps |-> <<>>,
   maxHistoryLength |-> DefaultMaxHistoryLength,
   eyeClosureStartTime |-> null, lastEyeClosureDuration |-> 0]

(* ---------------------------------------------------------------- helpers *)
Max(a, b) == IF a >= b THEN a ELSE b
Min(a, b) == IF a <= b THEN a ELSE b

\* A variant that never evicts.
ShiftNothing(s) == s

\* Array.prototype.shift: drops the first element, a no-op on an empty array.
Shift(s) == IF s = <<>> THEN s ELSE Tail(s)

\* Array.prototype.slice(-n) for n > 0: the last n elements, all if fewer.
SliceLast(s, n) == SubSeq(s, Max(1, Len(s) - n + 1), Len(s))

\* Array.prototype.slice(0, n): the first n elements, all if fewer.
SliceFirst(s, n) == SubSeq(s, 1, Min(n, Len(s)))

RECURSIVE SeqSum(_)
SeqSum(s) == IF s = <<>> THEN 0 ELSE Head(s) + SeqSum(Tail(s))

\* a < b of two numbers: false when one of them is NaN.
Less(a, b) == a # NaN /\ b # NaN /\ a < b

\* The sum of EAR values: NaN as soon as one of them is NaN.
EarSum(s) == IF \E i \in 1..Len(s) : s[i] = NaN THEN NaN ELSE SeqSum(s)

\* The score NaN: Math.max and Math.min return NaN when an argument is NaN,
\* and every comparison with NaN is false.
NaNScore == [num |-> 0, den |-> 0]

\* Math.round of the non-negative quotient a / b.
RoundDiv(a, b) == (2 * a + b) \div (2 * b)

\* Comparisons of a score num/den (den > 0, or NaNScore) with an integer.
ScoreGT(s, k) == s.den > 0 /\ s.num > k * s.den
ScoreGE(s, k) == s.den > 0 /\ s.num >= k * s.den
ScoreMax(s, t) ==
  IF s.den = 0 \/ t.den = 0 THEN NaNScore
  ELSE IF s.num \div s.den # t.num \div t.den
    THEN (IF s.num \div s.den > t.num \div t.den THEN s ELSE t)
  ELSE IF (s.num % s.den) * t.den >= (t.num % t.den) * s.den THEN s ELSE t

(* --------------------------------------------------------------- geometry *)
\* A landmark.  The coordinates of a run are taken from {0, 3} x {0, 4}, so
\* that every distance is an integer (0, 3, 4 or 5).
Point(x, y) == [x |-> x, y |-> y]

\* Math.sqrt of a perfect square.
Sqrt(n) == CHOOSE r \in 0..n : r * r = n

\* Math.sqrt(Math.pow(p.x - q.x, 2) + Math.pow(p.y - q.y, 2)).
Distance(p, q) == Sqrt((p.x - q.x) * (p.x - q.x) + (p.y - q.y) * (p.y - q.y))

\* The quotient a / b of two distances, in hundredths: NaN for 0/0, Infinity
\* for a/0.
Ratio(a, b) ==
  IF b = 0 THEN (IF a = 0 THEN NaN ELSE Infinity) ELSE (100 * a) \div b

\* Lines 493-505.  eyePoints[i] of the source is eyePoints[i + 1] here.
calculateEyeAspectRatio(eyePoints) ==
  IF Len(eyePoints) < 6 THEN ShortEar
  ELSE LET v1 == Distance(eyePoints[2], eyePoints[6])
           v2 == Distance(eyePoints[3], eyePoints[5])
           h == Distance(eyePoints[1], eyePoints[4])
       IN Ratio(v1 + v2, 2 * h)

\* Lines 507-524.  mouthPoints[i] of the source is mouthPoints[i + 1] here;
\* the guard of line 508 lets sets of 6 and 7 points through.
calculateMouthAspectRatio(mouthPoints) ==
  IF Len(mouthPoints) < 6 THEN 0
  ELSE IF Len(mouthPoints) < 8 THEN TypeError
  ELSE LET v1 == Distance(mouthPoints[3], mouthPoints[7])
           v2 == Distance(mouthPoints[4], mouthPoints[8])
           h == Distance(mouthPoints[1], mouthPoints[5])
       IN Ratio(v1 + v2, 2 * h)

\* Line 675: (leftEAR + rightEAR) / 2.
averageEAR(leftEAR, rightEAR) ==
  IF leftEAR = NaN \/ rightEAR = NaN THEN NaN
  ELSE IF leftEAR = Infinity \/ rightEAR = Infinity THEN Infinity
  ELSE (leftEAR + rightEAR) \div 2

(* ------------------------------------------------ analyzeDrowsinessPattern *)
\* A variant that takes "3 seconds or more" as "more than 3 seconds".
isSustainedStrict(eyeClosureDuration) == eyeClosureDuration > SustainedClosureMin

\* Closure duration from which a closure is sustained (line 564).
isSustained(eyeClosureDuration) == eyeClosureDuration >= SustainedClosureMin

\* A closed-eye frame is a blink frame while the closure is short (line 563).
isBlinkFrame(isEyesClosed, eyeClosureDuration) ==
  isEyesClosed /\ eyeClosureDuration < BlinkMaxDuration

\* A variant whose blink term is not clamped at 0.
drowsinessScoreUnclamped(sum, n, thr, recentBlinks, sustained) ==
  LET earNum == Max(0, thr * n - sum)
      blinkNum == NormalBlinkRate - recentBlinks
      den == (2 * NormalBlinkRate * thr * n) \div 10
      num == 10 * NormalBlinkRate * earNum + 10 * thr * n * blinkNum
      capped == IF num > 100 * den THEN [num |-> 100, den |-> 1]
                                   ELSE [num |-> num, den |-> den]
  IN IF sum = NaN THEN NaNScore
     ELSE IF sustained THEN ScoreMax(capped, [num |-> 95, den |-> 1]) ELSE capped

\* Lines 587-594: min(100, (earScore + blinkScore) / 2), at least 95 on a
\* sustained closure.  sum and n are the sum and the count of the retained
\* EAR values, thr the EAR threshold, recentBlinks the blink count.
drowsinessScoreOf(sum, n, thr, recentBlinks, sustained) ==
  LET earNum == Max(0, thr * n - sum)            \* earScore = 100*earNum/(thr*n)
      blinkNum == Max(0, NormalBlinkRate - recentBlinks)
      den == (2 * NormalBlinkRate * thr * n) \div 10
      num == 10 * NormalBlinkRate * earNum + 10 * thr * n * blinkNum
      capped == IF num > 100 * den THEN [num |-> 100, den |-> 1]
                                   ELSE [num |-> num, den |-> den]
  IN IF sum = NaN THEN NaNScore
     ELSE IF sustained THEN ScoreMax(capped, [num |-> 95, den |-> 1]) ELSE capped

\* A variant that tests the score thresholds in ascending order.
alertLevelAscending(sustained, score, drowsy, eyeClosureDuration) ==
  IF sustained
    THEN [level |-> "critical",
          message |-> <<"CRITICAL: Eyes closed for N seconds",
                        RoundDiv(eyeClosureDuration, 1000)>>]
  ELSE IF ScoreGT(score, 40)
    THEN [level |-> "medium", message |-> <<"MODERATE", 0>>]
  ELSE IF ScoreGT(score, 60)
    THEN [level |-> "high", message |-> <<"HIGH ALERT", 0>>]
  ELSE IF ScoreGT(score, 80)
    THEN [level |-> "critical", message |-> <<"CRITICAL: Severe drowsiness", 0>>]
  ELSE IF drowsy
    THEN [level |-> "low", message |-> <<"NOTICE", 0>>]
  ELSE [level |-> "low", message |-> <<"", 0>>]

\* Lines 596-615: the level and message of the frame, first match wins.
alertLevelOf(sustained, score, drowsy, eyeClosureDuration) ==
  IF sustained
    THEN [level |-> "critical",
          message |-> <<"CRITICAL: Eyes closed for N seconds",
                        RoundDiv(eyeClosureDuration, 1000)>>]
  ELSE IF ScoreGT(score, 80)
    THEN [level |-> "critical", message |-> <<"CRITICAL: Severe drowsiness", 0>>]
  ELSE IF ScoreGT(score, 60)
    THEN [level |-> "high", message |-> <<"HIGH ALERT", 0>>]
  ELSE IF ScoreGT(score, 40)
    THEN [level |-> "medium", message |-> <<"MODERATE", 0>>]
  ELSE IF drowsy
    THEN [level |-> "low", message |-> <<"NOTICE", 0>>]
  ELSE [level |-> "low", message |-> <<"", 0>>]

\* A variant that restarts the closure clock on every closed frame.
closureStepRestart(h, isEyesClosed, timestamp) ==
  IF isEyesClosed
    THEN [startTime |-> timestamp, lastDuration |-> h.lastEyeClosureDuration,
          duration |-> 0]
    ELSE [startTime |-> null,
          lastDuration |-> IF h.eyeClosureStartTime # null
                             THEN timestamp - h.eyeClosureStartTime
                             ELSE h.lastEyeClosureDuration,
          duration |-> 0]

\* Lines 540-560: the closure tracker's step.
closureStep(h, isEyesClosed, timestamp) ==
  IF isEyesClosed
    THEN LET start == IF h.eyeClosureStartTime = null THEN timestamp
                      ELSE h.eyeClosureStartTime
         IN [startTime |-> start, lastDuration |-> h.lastEyeClosureDuration,
             duration |-> timestamp - start]
    ELSE [startTime |-> null,
          lastDuration |-> IF h.eyeClosureStartTime # null
                             THEN timestamp - h.eyeClosureStartTime
                             ELSE h.lastEyeClosureDuration,
          duration |-> 0]

\* A variant that evicts no blink flag.
evictBlinkStateNever(blinkStates, over) == blinkStates

\* Line 537: the oldest blink flag is evicted with the oldest sample.
evictBlinkState(blinkStates, over) == IF over THEN Shift(blinkStates) ELSE blinkStates

\* A variant that counts every retained blink flag.
recentBlinksEver(ts, bs, oneMinuteAgo) ==
  Cardinality({i \in 1..Len(ts) : i <= Len(bs) /\ bs[i]})

\* Lines 570-575: retained samples with a blink flag in the last minute.
recentBlinksOf(ts, bs, oneMinuteAgo) ==
  Cardinality({i \in 1..Len(ts) : ts[i] > oneMinuteAgo /\ i <= Len(bs) /\ bs[i]})

\* A variant that asks for every recent frame to be below the threshold.
isDrowsyEveryFrame(recentLowEARCount, consecutiveFrames) ==
  recentLowEARCount >= consecutiveFrames

\* Line 585: recentLowEARCount >= consecutiveFrames * 0.8.
isDrowsyOf(recentLowEARCount, consecutiveFrames) ==
  5 * recentLowEARCount >= 4 * consecutiveFrames

\* Lines 526-627.  h is detectionHistoryRef.current, cfg the config the
\* caller's render holds.  The result carries the history as the call leaves
\* it, next to the values the function returns.
analyzeDrowsinessPattern(h, cfg, currentEAR, timestamp) ==
  LET ev1 == Append(h.earValues, currentEAR)
      ts1 == Append(h.timestamps, timestamp)
      over == Len(ev1) > h.maxHistoryLength
      ev == IF over THEN Shift(ev1) ELSE ev1
      ts == IF over THEN Shift(ts1) ELSE ts1
      bs0 == evictBlinkState(h.blinkStates, over)
      isEyesClosed == Less(currentEAR, cfg.earThreshold)
      cl == closureStep(h, isEyesClosed, timestamp)
      isBlink == isBlinkFrame(isEyesClosed, cl.duration)
      sustained == isSustained(cl.duration)
      bs == Append(bs0, isBlink)
      oneMinuteAgo == timestamp - BlinkWindow
      recentBlinks == recentBlinksOf(ts, bs, oneMinuteAgo)
      recent == SliceLast(ev, cfg.consecutiveFrames)
      recentLowEARCount ==
        Cardinality({i \in 1..Len(recent) : Less(recent[i], cfg.earThreshold)})
      isDrowsy == isDrowsyOf(recentLowEARCount, cfg.consecutiveFrames)
      score == drowsinessScoreOf(EarSum(ev), Len(ev), cfg.earThreshold,
                                 recentBlinks, sustained)
      lv == alertLevelOf(sustained, score, isDrowsy, cl.duration)
  IN [history |-> [earValues |-> ev, blinkStates |-> bs, timestamps |-> ts,
                   maxHistoryLength |-> h.maxHistoryLength,
                   eyeClosureStartTime |-> cl.startTime,
                   lastEyeClosureDuration |-> cl.lastDuration],
      isDrowsy |-> isDrowsy \/ sustained,
      blinkRate |-> recentBlinks,
      avgSum |-> EarSum(ev), avgCount |-> Len(ev),
      recentLowEARCount |-> recentLowEARCount,
      drowsinessScore |-> score,
      alertLevel |-> lv.level,
      alertMessage |-> lv.message,
      eyeClosureDuration |-> cl.duration,
      isSustainedClosure |-> sustained]

(* ------------------------------------------------------------------ state *)
VARIABLES
  now,                     \* Date.now()
  clicks,                  \* clicks on the controls so far (bounded by MaxClicks)
  detectionHistory,        \* detectionHistoryRef.current
  lastBlink,               \* lastBlinkRef.current
  consecutiveDrowsyFrames, \* consecutiveDrowsyFramesRef.current
  animationRef,            \* animationRef.current: the loop whose frame request was stored last, or null
  alertTimeoutRef,         \* alertTimeoutRef.current: a timer id, or null
  timers,                  \* pending auto-dismiss timers, each [id, due]
  video,                   \* the video element: "none" (no srcObject), "loading", "ready" (videoWidth > 0)
  onloadedmetadata,        \* values captured by the handler of line 811
  loops,                   \* detectFaceAndEyes call chains: [pc, cap]
  isStreaming, detectionStatus, stats, config, alertState, analytics, lastAlertTime,
  emitted,                 \* AlertEvents handed to the alert sink, in order
  assessment,              \* what the last processed frame returned and did
  landmarks                \* the point sets of the last frame with a face and their ratios

vars == <<now, clicks, detectionHistory, lastBlink, consecutiveDrowsyFrames,
          animationRef, alertTimeoutRef, timers, video, onloadedmetadata, loops,
          isStreaming, detectionStatus, stats, config, alertState, analytics,
          lastAlertTime, emitted, assessment, landmarks>>

LoopIds == 1..MaxLoops
ZeroScore == [num |-> 0, den |-> 1]

\* The values a detectFaceAndEyes instance created by the current render
\* reads (dependency list, line 778; updateAnalytics reads stats.blinkRate,
\* line 257).
Captured ==
  [isStreaming |-> isStreaming, config |-> config, level |-> alertState.level,
   lastAlertTime |-> lastAlertTime, blinkRate |-> stats.blinkRate]

NoLoop == [pc |-> "none",
           cap |-> [isStreaming |-> FALSE, config |-> DefaultConfig, level |-> "low",
                    lastAlertTime |-> 0, blinkRate |-> 0]]

NoAssessment ==
  [frame |-> 0, time |-> 0, ear |-> 0, isDrowsy |-> FALSE, blinkRate |-> 0,
   recentLowEARCount |-> 0,
   drowsinessScore |-> ZeroScore, alertLevel |-> "low", alertMessage |-> <<"", 0>>,
   eyeClosureDuration |-> 0, isSustainedClosure |-> FALSE, raised |-> FALSE,
   activeBefore |-> FALSE, levelBefore |-> "low", lastAlertBefore |-> 0,
   closureBefore |-> null, lastDurationBefore |-> 0,
   earThreshold |-> DefaultEarThreshold,
   consecutiveFrames |-> DefaultConsecutiveFrames, capLevel |-> "low", capLastAlert |-> 0,
   noFaceSince |-> null, noFaceGap |-> 0, sinkFailed |-> FALSE]

NoLandmarks ==
  [frame |-> 0, left |-> <<>>, right |-> <<>>, mouth |-> <<>>,
   leftEAR |-> 0, rightEAR |-> 0, avgEAR |-> 0, mouthAR |-> 0]

Init ==
  /\ now = StartTime
  /\ clicks = 0
  /\ detectionHistory = EmptyHistory
  /\ lastBlink = 0
  /\ consecutiveDrowsyFrames = 0
  /\ animationRef = null
  /\ alertTimeoutRef = null
  /\ timers = {}
  /\ video = "none"
  /\ onloadedmetadata = NoLoop.cap
  /\ loops = [l \in LoopIds |-> NoLoop]
  /\ isStreaming = FALSE
  /\ detectionStatus = "idle"
  /\ stats = [eyeAspectRatio |-> 0, blinkCount |-> 0, alertCount |-> 0,
              faceDetected |-> FALSE, blinkRate |-> 0, avgEAR |-> 0,
              drowsinessScore |-> ZeroScore, eyeClosureDuration |-> 0, currentEAR |-> 0]
  /\ config = DefaultConfig
  /\ alertState = [isActive |-> FALSE, level |-> "low", message |-> <<"", 0>>, timestamp |-> 0]
  /\ analytics = [currentSession |-> <<>>, sessions |-> <<>>, realTimeData |-> <<>>,
                  maxDataPoints |-> MaxDataPoints]
  /\ lastAlertTime = 0
  /\ emitted = <<>>
  /\ assessment = NoAssessment
  /\ landmarks = NoLandmarks

(* ------------------------------------------------------------ alert policy *)
\* Line 439.
timeoutDuration(level) ==
  IF level = "critical" THEN 10000 ELSE IF level = "high" THEN 7000 ELSE 5000

\* A handle setTimeout has not handed out among the live ones.
FreshTimerId == CHOOSE i \in 1..(Cardinality(timers) + 2) :
                  i # alertTimeoutRef /\ \A t \in timers : t.id # i

\* A variant that arms the new timer without clearing the stored one.
rearmTimerKeepOld(level) ==
  timers \cup {[id |-> FreshTimerId, due |-> now + timeoutDuration(level)]}

\* Lines 434-442: clearTimeout of the stored handle, then a new timer.
rearmTimer(level) ==
  (timers \ {t \in timers : t.id = alertTimeoutRef})
     \cup {[id |-> FreshTimerId, due |-> now + timeoutDuration(level)]}

\* A variant that hands nothing to the sink while an alert is already shown.
triggerAlertOnce(level, message) ==
  /\ alertState' = [isActive |-> TRUE, level |-> level, message |-> message,
                    timestamp |-> now]
  /\ emitted' = IF alertState.isActive THEN emitted
                ELSE Append(emitted, [level |-> level, message |-> message, timestamp |-> now])
  /\ timers' = rearmTimer(level)
  /\ alertTimeoutRef' = FreshTimerId

\* Lines 354-447.  The AlertEvent stands for what the call hands to the
\* sink (sound, notification, vibration, the log line 444).
triggerAlert(level, message) ==
  /\ alertState' = [isActive |-> TRUE, level |-> level, message |-> message,
                    timestamp |-> now]
  /\ emitted' = Append(emitted, [level |-> level, message |-> message, timestamp |-> now])
  /\ timers' = rearmTimer(level)
  /\ alertTimeoutRef' = FreshTimerId

\* A variant in which a frame that raises no alert deactivates the shown one.
noAlertDeactivates ==
  /\ alertState' = [alertState EXCEPT !.isActive = FALSE]
  /\ UNCHANGED <<emitted, timers, alertTimeoutRef>>

\* Lines 721-727 and 760-771 when no branch calls triggerAlert.
noAlert == UNCHANGED <<alertState, emitted, timers, alertTimeoutRef>>

\* A variant that clears the timer and leaves the alert shown.
dismissAlertKeepActive(a, tm, ref) ==
  [alertState |-> a, timers |-> {t \in tm : t.id # ref}, alertTimeoutRef |-> null]

\* A variant that forgets clearTimeout.
dismissAlertKeepTimer(a, tm, ref) ==
  [alertState |-> [a EXCEPT !.isActive = FALSE], timers |-> tm, alertTimeoutRef |-> null]

\* Lines 449-458, as a function of the alert state a, the pending timers tm
\* and the stored timer handle ref.
dismissAlert(a, tm, ref) ==
  [alertState |-> [a EXCEPT !.isActive = FALSE],
   timers |-> {t \in tm : t.id # ref},
   alertTimeoutRef |-> null]

dismissEffect ==
  LET d == dismissAlert(alertState, timers, alertTimeoutRef)
  IN /\ alertState' = d.alertState
     /\ timers' = d.timers
     /\ alertTimeoutRef' = d.alertTimeoutRef

(* -------------------------------------------------------------- analytics *)
\* Lines 180-199.
newSession ==
  <<[id |-> now, startTime |-> now, endTime |-> null, duration |-> 0,
     totalBlinks |-> 0, totalAlerts |-> 0, avgEAR |-> 0,
     maxDrowsinessScore |-> ZeroScore,
     alertsByLevel |-> [l \in Levels |-> 0],
     earHistory |-> <<>>, drowsinessHistory |-> <<>>]>>

\* A variant that keeps every archived session.
endSessionKeepAll(a, st) ==
  IF a.currentSession = <<>> THEN a
  ELSE LET cur == a.currentSession[1]
           ended == [cur EXCEPT !.endTime = now,
                                !.duration = now - cur.startTime,
                                !.totalBlinks = st.blinkCount,
                                !.totalAlerts = st.alertCount,
                                !.avgEAR = st.avgEAR,
                                !.maxDrowsinessScore =
                                   ScoreMax(cur.maxDrowsinessScore, st.drowsinessScore)]
       IN [a EXCEPT !.currentSession = <<>>,
                    !.sessions = <<ended>> \o a.sessions]

\* A variant that archives an empty session when none is open.
endSessionAlways(a, st) ==
  LET cur == IF a.currentSession = <<>> THEN newSession[1] ELSE a.currentSession[1]
      ended == [cur EXCEPT !.endTime = now,
                           !.duration = now - cur.startTime,
                           !.totalBlinks = st.blinkCount,
                           !.totalAlerts = st.alertCount,
                           !.avgEAR = st.avgEAR,
                           !.maxDrowsinessScore =
                              ScoreMax(cur.maxDrowsinessScore, st.drowsinessScore)]
  IN [a EXCEPT !.currentSession = <<>>,
               !.sessions = <<ended>> \o SliceFirst(a.sessions, SessionArchiveCap - 1)]

\* Lines 201-221.  a is the analytics state, st the stats of the render.
endSession(a, st) ==
  IF a.currentSession = <<>> THEN a
  ELSE LET cur == a.currentSession[1]
           ended == [cur EXCEPT !.endTime = now,
                                !.duration = now - cur.startTime,
                                !.totalBlinks = st.blinkCount,
                                !.totalAlerts = st.alertCount,
                                !.avgEAR = st.avgEAR,
                                !.maxDrowsinessScore =
                                   ScoreMax(cur.maxDrowsinessScore, st.drowsinessScore)]
       IN [a EXCEPT !.currentSession = <<>>,
                    !.sessions = <<ended>> \o SliceFirst(a.sessions, SessionArchiveCap - 1)]

\* A variant that never evicts a recorded point.
updateAnalyticsUnbounded(a, earValue, score, alertLevel, blinks) ==
  LET point == [timestamp |-> now, ear |-> earValue, drowsiness |-> score, blinks |-> blinks]
      rt == Append(a.realTimeData, point)
      cur == a.currentSession[1]
      upd == [cur EXCEPT
                !.duration = now - cur.startTime,
                !.maxDrowsinessScore = ScoreMax(cur.maxDrowsinessScore, score),
                !.earHistory = Append(cur.earHistory,
                                  [timestamp |-> now, value |-> earValue]),
                !.drowsinessHistory = Append(cur.drowsinessHistory,
                                  [timestamp |-> now, value |-> score]),
                !.alertsByLevel = IF alertLevel = "" THEN cur.alertsByLevel
                                  ELSE [cur.alertsByLevel EXCEPT ![alertLevel] = @ + 1]]
  IN [a EXCEPT !.realTimeData = rt,
               !.currentSession = IF a.currentSession = <<>> THEN <<>> ELSE <<upd>>]

\* A variant that counts the alert level into the session archived last when
\* no session is open.
updateAnalyticsArchived(a, earValue, score, alertLevel, blinks) ==
  LET point == [timestamp |-> now, ear |-> earValue, drowsiness |-> score, blinks |-> blinks]
      rt == SliceLast(Append(a.realTimeData, point), a.maxDataPoints)
      cur == a.currentSession[1]
      upd == [cur EXCEPT
                !.duration = now - cur.startTime,
                !.maxDrowsinessScore = ScoreMax(cur.maxDrowsinessScore, score),
                !.earHistory = SliceLast(Append(cur.earHistory,
                                  [timestamp |-> now, value |-> earValue]), SessionHistoryCap),
                !.drowsinessHistory = SliceLast(Append(cur.drowsinessHistory,
                                  [timestamp |-> now, value |-> score]), SessionHistoryCap),
                !.alertsByLevel = IF alertLevel = "" THEN cur.alertsByLevel
                                  ELSE [cur.alertsByLevel EXCEPT ![alertLevel] = @ + 1]]
  IN IF a.currentSession = <<>> /\ a.sessions # <<>> /\ alertLevel # ""
       THEN [a EXCEPT !.realTimeData = rt,
                      !.sessions[1].alertsByLevel[alertLevel] = @ + 1]
       ELSE [a EXCEPT !.realTimeData = rt,
                      !.currentSession = IF a.currentSession = <<>> THEN <<>> ELSE <<upd>>]

\* Lines 223-258.  alertLevel is a level or "" (undefined); blinks is the
\* stats.blinkRate the calling instance holds.
updateAnalytics(a, earValue, score, alertLevel, blinks) ==
  LET point == [timestamp |-> now, ear |-> earValue, drowsiness |-> score, blinks |-> blinks]
      rt == SliceLast(Append(a.realTimeData, point), a.maxDataPoints)
      cur == a.currentSession[1]
      upd == [cur EXCEPT
                !.duration = now - cur.startTime,
                !.maxDrowsinessScore = ScoreMax(cur.maxDrowsinessScore, score),
                !.earHistory = SliceLast(Append(cur.earHistory,
                                  [timestamp |-> now, value |-> earValue]), SessionHistoryCap),
                !.drowsinessHistory = SliceLast(Append(cur.drowsinessHistory,
                                  [timestamp |-> now, value |-> score]), SessionHistoryCap),
                !.alertsByLevel = IF alertLevel = "" THEN cur.alertsByLevel
                                  ELSE [cur.alertsByLevel EXCEPT ![alertLevel] = @ + 1]]
  IN [a EXCEPT !.realTimeData = rt,
               !.currentSession = IF a.currentSession = <<>> THEN <<>> ELSE <<upd>>]

(* ------------------------------------------------------------ the clock *)
\* Time passes: by a frame or click delay, or up to the deadline of a pending
\* auto-dismiss timer.
Tick(d) ==
  /\ d > 0
  /\ now' = now + d
  /\ UNCHANGED <<clicks, detectionHistory, lastBlink, consecutiveDrowsyFrames,
                 animationRef, alertTimeoutRef, timers, video, onloadedmetadata, loops,
                 isStreaming, detectionStatus, stats, config, alertState, analytics,
                 lastAlertTime, emitted, assessment, landmarks>>

TickDelays == Deltas \cup {t.due - now : t \in timers}

(* ------------------------------------------------------- detectFaceAndEyes *)
\* Lines 630-640: the guards of a call, read from the values it captured and
\* from the video element.
passesGuards(cap) == cap.isStreaming /\ video = "ready"

\* Lines 721-727: which branch raises an alert on this frame.  cap holds the
\* alertState.level, lastAlertTime and config of the instance's render.
sustainedBranch(an, cap) == an.isSustainedClosure /\ cap.level # "critical"
\* A variant that alerts on every level above "low", drowsy or not.
cooldownBranchAnyLevel(an, cap) ==
  (an.isDrowsy \/ an.alertLevel # "low") /\ now - cap.lastAlertTime > cap.config.alertCooldown
cooldownBranch(an, cap) ==
  an.isDrowsy /\ now - cap.lastAlertTime > cap.config.alertCooldown

\* Line 739: the frame counts as a new blink for stats.blinkCount.
countsBlink(ear, cap) ==
  Less(ear, cap.config.blinkThreshold) /\ now - lastBlink > BlinkRefractory

\* Lines 652-759: a face was detected; ear is (leftEAR + rightEAR) / 2.
faceFrame(cap, ear) ==
  LET an == analyzeDrowsinessPattern(detectionHistory, cap.config, ear, now)
      first == sustainedBranch(an, cap)
      second == ~first /\ cooldownBranch(an, cap)
  IN /\ detectionHistory' = an.history
     /\ IF first \/ second THEN triggerAlert(an.alertLevel, an.alertMessage) ELSE noAlert
     /\ lastAlertTime' = IF second THEN now ELSE lastAlertTime
     /\ stats' = [stats EXCEPT
                    !.currentEAR = ear, !.blinkRate = an.blinkRate,
                    !.drowsinessScore = an.drowsinessScore,
                    !.eyeClosureDuration = an.eyeClosureDuration,
                    !.faceDetected = TRUE, !.eyeAspectRatio = ear,
                    !.blinkCount = @ + (IF countsBlink(ear, cap) THEN 1 ELSE 0),
                    !.alertCount = @ + (IF an.alertLevel # "low" THEN 1 ELSE 0)]
     /\ analytics' = updateAnalytics(analytics, ear, an.drowsinessScore,
                        IF an.alertLevel # "low" THEN an.alertLevel ELSE "", cap.blinkRate)
     /\ lastBlink' = IF countsBlink(ear, cap) THEN now ELSE lastBlink
     /\ consecutiveDrowsyFrames' = IF an.isDrowsy THEN consecutiveDrowsyFrames + 1 ELSE 0
     /\ detectionStatus' = IF an.isDrowsy THEN "drowsy" ELSE "active"
     /\ assessment' =
          [frame |-> assessment.frame + 1, time |-> now, ear |-> ear,
           isDrowsy |-> an.isDrowsy, blinkRate |-> an.blinkRate,
           recentLowEARCount |-> an.recentLowEARCount,
           drowsinessScore |-> an.drowsinessScore, alertLevel |-> an.alertLevel,
           alertMessage |-> an.alertMessage,
           eyeClosureDuration |-> an.eyeClosureDuration,
           isSustainedClosure |-> an.isSustainedClosure,
           raised |-> first \/ second,
           activeBefore |-> alertState.isActive, levelBefore |-> alertState.level,
           lastAlertBefore |-> lastAlertTime,
           closureBefore |-> detectionHistory.eyeClosureStartTime,
           lastDurationBefore |-> detectionHistory.lastEyeClosureDuration,
           earThreshold |-> cap.config.earThreshold,
           consecutiveFrames |-> cap.config.consecutiveFrames,
           capLevel |-> cap.level, capLastAlert |-> cap.lastAlertTime,
           noFaceSince |-> null,
           noFaceGap |-> IF assessment.noFaceSince = null THEN 0
                         ELSE now - assessment.noFaceSince,
           sinkFailed |-> FALSE]

\* Lines 354-433 when the Notification constructor (line 396) or
\* navigator.vibrate (lines 420-429) throws: setAlertState (line 358) has been
\* called and the sound may have been played (lines 366-392, which catch
\* their own errors); the rest of the function, with the timer of lines
\* 434-442, is skipped and no AlertEvent is delivered.
triggerAlertSinkFails(level, message) ==
  /\ alertState' = [isActive |-> TRUE, level |-> level, message |-> message,
                    timestamp |-> now]
  /\ UNCHANGED <<emitted, timers, alertTimeoutRef>>

\* Lines 652-727 and 772-774: a frame whose triggerAlert call throws.  The
\* exception leaves the try block at line 723 or 725 for the catch of line
\* 772: analyzeDrowsinessPattern has updated the history, and lines 726-759
\* (setLastAlertTime, setStats, updateAnalytics, the blink and drowsy-frame
\* refs, setDetectionStatus) are skipped.
faceFrameSinkFails(cap, ear) ==
  LET an == analyzeDrowsinessPattern(detectionHistory, cap.config, ear, now)
      first == sustainedBranch(an, cap)
      second == ~first /\ cooldownBranch(an, cap)
  IN /\ first \/ second
     /\ detectionHistory' = an.history
     /\ triggerAlertSinkFails(an.alertLevel, an.alertMessage)
     /\ UNCHANGED <<lastAlertTime, stats, analytics, lastBlink,
                    consecutiveDrowsyFrames, detectionStatus>>
     /\ assessment' =
          [frame |-> assessment.frame + 1, time |-> now, ear |-> ear,
           isDrowsy |-> an.isDrowsy, blinkRate |-> an.blinkRate,
           recentLowEARCount |-> an.recentLowEARCount,
           drowsinessScore |-> an.drowsinessScore, alertLevel |-> an.alertLevel,
           alertMessage |-> an.alertMessage,
           eyeClosureDuration |-> an.eyeClosureDuration,
           isSustainedClosure |-> an.isSustainedClosure,
           raised |-> TRUE,
           activeBefore |-> alertState.isActive, levelBefore |-> alertState.level,
           lastAlertBefore |-> lastAlertTime,
           closureBefore |-> detectionHistory.eyeClosureStartTime,
           lastDurationBefore |-> detectionHistory.lastEyeClosureDuration,
           earThreshold |-> cap.config.earThreshold,
           consecutiveFrames |-> cap.config.consecutiveFrames,
           capLevel |-> cap.level, capLastAlert |-> cap.lastAlertTime,
           noFaceSince |-> null,
           noFaceGap |-> IF assessment.noFaceSince = null THEN 0
                         ELSE now - assessment.noFaceSince,
           sinkFailed |-> TRUE]

\* Lines 760-771: no face in the frame.  The observation records when the
\* face was lost: noFaceSince is the time of the first frame without a face
\* since the last frame with one.
noFaceFrame ==
  /\ stats' = [stats EXCEPT !.faceDetected = FALSE, !.eyeAspectRatio = 0,
                            !.currentEAR = 0, !.blinkRate = 0,
                            !.drowsinessScore = ZeroScore, !.eyeClosureDuration = 0]
  /\ detectionStatus' = "active"
  /\ noAlert
  /\ assessment' = [assessment EXCEPT
                      !.noFaceSince = IF @ = null THEN now ELSE @]
  /\ UNCHANGED <<detectionHistory, lastAlertTime, analytics, lastBlink,
                 consecutiveDrowsyFrames>>

\* The clock has advanced since the last sample was recorded.
frameClockOK ==
  IF detectionHistory.timestamps = <<>> THEN TRUE
  ELSE now > detectionHistory.timestamps[Len(detectionHistory.timestamps)]

\* Lines 629-647: a scheduled call runs; it passes the guards and awaits the
\* landmark detector, or returns without scheduling another call.
FrameRequested(l) ==
  /\ loops[l].pc = "scheduled"
  /\ loops' = [loops EXCEPT ![l] = IF passesGuards(loops[l].cap)
                                     THEN [@ EXCEPT !.pc = "awaiting"] ELSE NoLoop]
  /\ UNCHANGED <<now, clicks, detectionHistory, lastBlink, consecutiveDrowsyFrames,
                 animationRef, alertTimeoutRef, timers, video, onloadedmetadata,
                 isStreaming, detectionStatus, stats, config, alertState, analytics,
                 lastAlertTime, emitted, assessment, landmarks>>

\* Lines 647-777: estimateFaces resolved with a face; the frame is processed
\* and the instance requests its next call.
FaceFrame(l, ear) ==
  /\ loops[l].pc = "awaiting"
  /\ frameClockOK
  /\ faceFrame(loops[l].cap, ear)
  /\ loops' = [loops EXCEPT ![l].pc = "scheduled"]
  /\ animationRef' = l
  /\ UNCHANGED <<now, clicks, video, onloadedmetadata, isStreaming, config, landmarks>>

\* Lines 647-777: estimateFaces resolved with a face and the alert sink threw
\* inside triggerAlert; the instance requests its next call (line 777).
FaceFrameSinkFails(l, ear) ==
  /\ loops[l].pc = "awaiting"
  /\ frameClockOK
  /\ faceFrameSinkFails(loops[l].cap, ear)
  /\ loops' = [loops EXCEPT ![l].pc = "scheduled"]
  /\ animationRef' = l
  /\ UNCHANGED <<now, clicks, video, onloadedmetadata, isStreaming, config, landmarks>>

\* Lines 647-777: estimateFaces resolved with a face whose eye and mouth point
\* sets (lines 668-670) are given.  When calculateMouthAspectRatio throws
\* (line 692) the catch of line 772 ends the frame before line 702: nothing of
\* the frame is analysed or recorded.  The instance requests its next call.
LandmarkFrame(l, left, right, mouth) ==
  LET leftEAR == calculateEyeAspectRatio(left)
      rightEAR == calculateEyeAspectRatio(right)
      avgEAR == averageEAR(leftEAR, rightEAR)
      mouthAR == calculateMouthAspectRatio(mouth)
  IN /\ loops[l].pc = "awaiting"
     /\ frameClockOK
     /\ landmarks' = [frame |-> landmarks.frame + 1, left |-> left, right |-> right,
                      mouth |-> mouth, leftEAR |-> leftEAR, rightEAR |-> rightEAR,
                      avgEAR |-> avgEAR, mouthAR |-> mouthAR]
     /\ IF mouthAR = TypeError
          THEN UNCHANGED <<detectionHistory, alertState, emitted, timers,
                           alertTimeoutRef, lastAlertTime, stats, analytics, lastBlink,
                           consecutiveDrowsyFrames, detectionStatus, assessment>>
          ELSE faceFrame(loops[l].cap, avgEAR)
     /\ loops' = [loops EXCEPT ![l].pc = "scheduled"]
     /\ animationRef' = l
     /\ UNCHANGED <<now, clicks, video, onloadedmetadata, isStreaming, config>>

\* Lines 647-651, 760-777: estimateFaces resolved with no face.
NoFaceFrame(l) ==
  /\ loops[l].pc = "awaiting"
  /\ noFaceFrame
  /\ loops' = [loops EXCEPT ![l].pc = "scheduled"]
  /\ animationRef' = l
  /\ UNCHANGED <<now, clicks, video, onloadedmetadata, isStreaming, config, landmarks>>

(* ------------------------------------------------------ camera start, stop *)
\* Lines 780-819, with the model loaded and the camera granted.  The handler
\* of line 811 calls the detectFaceAndEyes of the render the click came from,
\* so the loop it starts reads that render's isStreaming at line 630.  The
\* function has no guard on isStreaming: a call made while isStreaming is
\* already TRUE is the one whose loop passes line 630 and processes frames;
\* the loop of a call made while isStreaming is FALSE ends at its first
\* request.  The page shows the Start button only while isStreaming is FALSE
\* (lines 1047-1060); the action is the function, called at any time.
StartCamera ==
  /\ clicks' = clicks + 1
  /\ video' = "loading"
  /\ isStreaming' = TRUE
  /\ detectionStatus' = "active"
  /\ analytics' = [analytics EXCEPT !.currentSession = newSession]
  /\ onloadedmetadata' = Captured
  /\ UNCHANGED <<now, detectionHistory, lastBlink, consecutiveDrowsyFrames,
                 animationRef, alertTimeoutRef, timers, loops, stats, config,
                 alertState, lastAlertTime, emitted, assessment, landmarks>>

FreeLoop == CHOOSE l \in LoopIds : loops[l].pc = "none"

\* Lines 811-813 and 629-647: the video's metadata is loaded and the handler
\* calls detectFaceAndEyes, which returns at a guard or awaits the detector.
MetadataLoaded ==
  /\ video = "loading"
  /\ video' = "ready"
  /\ IF onloadedmetadata.isStreaming
       THEN /\ \E l \in LoopIds : loops[l].pc = "none"
            /\ loops' = [loops EXCEPT ![FreeLoop] =
                           [pc |-> "awaiting", cap |-> onloadedmetadata]]
       ELSE UNCHANGED loops
  /\ UNCHANGED <<now, clicks, detectionHistory, lastBlink, consecutiveDrowsyFrames,
                 animationRef, alertTimeoutRef, timers, onloadedmetadata,
                 isStreaming, detectionStatus, stats, config, alertState, analytics,
                 lastAlertTime, emitted, assessment, landmarks>>

\* Lines 821-841.  cancelAnimationFrame reaches the request stored last, if
\* it has not run yet.
StopCamera ==
  /\ clicks' = clicks + 1
  /\ loops' = [l \in LoopIds |->
                 IF l = animationRef /\ loops[l].pc = "scheduled" THEN NoLoop ELSE loops[l]]
  /\ video' = "none"
  /\ isStreaming' = FALSE
  /\ detectionStatus' = "idle"
  /\ analytics' = endSession(analytics, stats)
  /\ UNCHANGED <<now, detectionHistory, lastBlink, consecutiveDrowsyFrames,
                 animationRef, alertTimeoutRef, timers, onloadedmetadata, stats, config,
                 alertState, lastAlertTime, emitted, assessment, landmarks>>

(* -------------------------------------------------------- alert controls *)
\* Lines 896-904.
TestAlert(level) ==
  /\ clicks' = clicks + 1
  /\ triggerAlert(level, <<"Test", 0>>)
  /\ UNCHANGED <<now, detectionHistory, lastBlink, consecutiveDrowsyFrames,
                 animationRef, video, onloadedmetadata, loops, isStreaming,
                 detectionStatus, stats, config, analytics, lastAlertTime, assessment, landmarks>>

\* Lines 449-458 (the Dismiss button is on the page while the alert is active;
\* the function itself has no such guard).
DismissAlert ==
  /\ clicks' = clicks + 1
  /\ dismissEffect
  /\ UNCHANGED <<now, detectionHistory, lastBlink, consecutiveDrowsyFrames,
                 animationRef, video, onloadedmetadata, loops, isStreaming,
                 detectionStatus, stats, config, analytics, lastAlertTime, emitted,
                 assessment, landmarks>>

\* Lines 440-442: the auto-dismiss timer t runs.
AutoDismiss(t) ==
  /\ t \in timers
  /\ now >= t.due
  /\ timers' = timers \ {t}
  /\ alertState' = [alertState EXCEPT !.isActive = FALSE]
  /\ UNCHANGED <<now, clicks, detectionHistory, lastBlink, consecutiveDrowsyFrames,
                 animationRef, alertTimeoutRef, video, onloadedmetadata, loops,
                 isStreaming, detectionStatus, stats, config, analytics, lastAlertTime,
                 emitted, assessment, landmarks>>

(* --------------------------------------------------------------- settings *)
\* Lines 853-855.
UpdateEARThreshold(value) ==
  /\ clicks' = clicks + 1
  /\ config' = [config EXCEPT !.earThreshold = value]
  /\ UNCHANGED <<now, detectionHistory, lastBlink, consecutiveDrowsyFrames,
                 animationRef, alertTimeoutRef, timers, video, onloadedmetadata, loops,
                 isStreaming, detectionStatus, stats, alertState, analytics,
                 lastAlertTime, emitted, assessment, landmarks>>

\* Lines 857-859: Math.round(value * 2).
UpdateSensitivity(value) ==
  /\ clicks' = clicks + 1
  /\ config' = [config EXCEPT !.consecutiveFrames = value * 2]
  /\ UNCHANGED <<now, detectionHistory, lastBlink, consecutiveDrowsyFrames,
                 animationRef, alertTimeoutRef, timers, video, onloadedmetadata, loops,
                 isStreaming, detectionStatus, stats, alertState, analytics,
                 lastAlertTime, emitted, assessment, landmarks>>

\* Lines 861-890.
ResetSettings ==
  /\ clicks' = clicks + 1
  /\ config' = DefaultConfig
  /\ detectionHistory' = EmptyHistory
  /\ stats' = [stats EXCEPT !.blinkCount = 0, !.alertCount = 0, !.blinkRate = 0,
                            !.avgEAR = 0, !.drowsinessScore = ZeroScore,
                            !.eyeClosureDuration = 0, !.currentEAR = 0]
  /\ UNCHANGED <<now, lastBlink, consecutiveDrowsyFrames, animationRef,
                 alertTimeoutRef, timers, video, onloadedmetadata, loops, isStreaming,
                 detectionStatus, alertState, analytics, lastAlertTime, emitted,
                 assessment, landmarks>>

(* ---------------------------------------------------------- specification *)
\* The whole page: every handler, under small budgets of clicks, frames and
\* elapsed time.
mayClick == clicks < MaxClicks
mayTick(d) == now + d <= StartTime + MaxElapsed
mayFrame == assessment.frame < MaxFrames

Next ==
  \/ \E d \in TickDelays : mayTick(d) /\ Tick(d)
  \/ mayClick /\ StartCamera
  \/ MetadataLoaded
  \/ mayClick /\ StopCamera
  \/ \E l \in LoopIds : FrameRequested(l)
  \/ \E l \in LoopIds, ear \in EarInputs : mayFrame /\ FaceFrame(l, ear)
  \/ \E l \in LoopIds : NoFaceFrame(l)
  \/ \E level \in Levels : mayClick /\ TestAlert(level)
  \/ mayClick /\ DismissAlert
  \/ \E t \in timers : AutoDismiss(t)
  \/ \E v \in ThresholdInputs : mayClick /\ UpdateEARThreshold(v)
  \/ \E v \in SensitivityInputs : mayClick /\ UpdateSensitivity(v)
  \/ mayClick /\ ResetSettings

Spec == Init /\ [][Next]_vars

(* ------------------------------------------------------------ engine runs *)
\* The detectFaceAndEyes calls in flight (awaiting the detector, line 647) or
\* scheduled (requestAnimationFrame, line 777).
running == {l \in LoopIds : loops[l].pc # "none"}

\* The frame pipeline under a quiet operator: the sensitivity may be set
\* before the camera is started, the clock advances once between two frames
\* of a running loop, and the operator may reset the
\* settings.
live == \E l \in LoopIds : loops[l].pc # "none"

frameDue ==
  /\ \E l \in LoopIds : loops[l].pc = "scheduled"
  /\ detectionHistory.timestamps # <<>>
  /\ ~frameClockOK

mayEngineClick == clicks < MaxEngineClicks
mayEngineFrame == assessment.frame < MaxEngineFrames

NextEngine ==
  \/ \E v \in SensitivityInputs : clicks = 0 /\ UpdateSensitivity(v)
  \/ ~live /\ mayEngineClick /\ StartCamera
  \/ MetadataLoaded
  \/ \E d \in EngineDeltas : frameDue /\ Tick(d)
  \/ \E l \in LoopIds : FrameRequested(l)
  \/ \E l \in LoopIds, ear \in EngineEars : mayEngineFrame /\ FaceFrame(l, ear)
  \/ \E t \in timers : AutoDismiss(t)
  \/ live /\ mayEngineClick /\ ResetSettings

SpecEngine == Init /\ [][NextEngine]_vars

\* The frame pipeline across camera restarts: the operator starts the camera
\* again while frames are being processed, stops it and dismisses alerts, and
\* the face may be lost for some frames.
mayRestartClick == clicks < MaxRestartClicks
mayRestartFrame == assessment.frame < MaxRestartFrames
mayRestartLoop == onloadedmetadata.isStreaming => Cardinality(running) < MaxRestartLoops

NextRestart ==
  \/ \E v \in SensitivityInputs : clicks = 0 /\ UpdateSensitivity(v)
  \/ mayRestartClick /\ video # "loading" /\ StartCamera
  \/ mayRestartLoop /\ MetadataLoaded
  \/ \E d \in EngineDeltas : frameDue /\ Tick(d)
  \/ \E l \in LoopIds : FrameRequested(l)
  \/ \E l \in LoopIds, ear \in RestartEars : mayRestartFrame /\ FaceFrame(l, ear)
  \/ alertState.isActive /\ mayRestartClick /\ DismissAlert
  \/ isStreaming /\ mayRestartClick /\ StopCamera
  \/ \E l \in LoopIds : assessment.frame > 0 /\ NoFaceFrame(l)

SpecRestart == Init /\ [][NextRestart]_vars

\* The frame pipeline on faces whose eye point sets may be degenerate: too
\* short (EAR 0), all points coinciding (NaN), corner points coinciding
\* (Infinity), next to a deeply closed and an open eye.
DegenerateEars == {ShortEar, NaN, Infinity, 5, 60}
mayDegenerateFrame == assessment.frame < MaxDegenerateFrames

NextDegenerate ==
  \/ ~live /\ mayEngineClick /\ StartCamera
  \/ MetadataLoaded
  \/ \E d \in EngineDeltas : frameDue /\ Tick(d)
  \/ \E l \in LoopIds : FrameRequested(l)
  \/ \E l \in LoopIds, ear \in DegenerateEars : mayDegenerateFrame /\ FaceFrame(l, ear)

SpecDegenerate == Init /\ [][NextDegenerate]_vars

\* Scripted runs of the frame pipeline, one per sensitivity; the operator may
\* reset the settings during a run.  cf is the
\* consecutiveFrames of the running loop and k the number of the next frame.
\*   cf = 2 (sensitivity 1): two closed frames, one open frame, repeated
\*     beyond the capacity of the history buffer;
\*   cf = 8 (sensitivity 4): every sequence over EAR 0.10 and 0.30;
\*   cf = 10 (default): 15 or 16 closed frames (EAR 0.05), then open frames
\*     (EAR 0.45).
LongEars(cf, k) ==
  IF cf = 2 THEN (IF k <= EvictionFrames THEN {IF k % 3 = 0 THEN 60 ELSE 5} ELSE {})
  ELSE IF cf = 8 THEN (IF k <= WindowFrames THEN {10, 30} ELSE {})
  ELSE IF k <= 15 THEN {5}
  ELSE IF k = 16 THEN {5, 45}
  ELSE IF k <= ScoreFrames THEN {45}
  ELSE {}

\* Frames are 1 ms apart; in the eviction run a minute may pass once.
LongDelays ==
  {1} \cup (IF config.consecutiveFrames = 2 /\ assessment.frame = LongPauseFrame
              THEN {BlinkWindow} ELSE {})

NextLong ==
  \/ \E v \in LongSensitivities : clicks = 0 /\ UpdateSensitivity(v)
  \/ ~live /\ clicks < MaxLongClicks /\ StartCamera
  \/ MetadataLoaded
  \/ \E d \in LongDelays : frameDue /\ Tick(d)
  \/ \E l \in LoopIds : FrameRequested(l)
  \/ \E l \in LoopIds :
       \E ear \in LongEars(loops[l].cap.config.consecutiveFrames, assessment.frame + 1) :
         FaceFrame(l, ear)
  \/ live /\ clicks < MaxLongClicks /\ ResetSettings

SpecLong == Init /\ [][NextLong]_vars

\* Sessions opened and ended beyond the capacity of the archive: the operator
\* starts the camera while it is off and stops it at any time, and the clock
\* advances between the end of a session and the next click.
archiveClockDue ==
  /\ analytics.currentSession = <<>>
  /\ analytics.sessions # <<>>
  /\ analytics.sessions[1].endTime = now

mayArchiveClick == clicks < MaxArchiveClicks /\ ~archiveClockDue

NextArchive ==
  \/ archiveClockDue /\ Tick(1)
  \/ ~isStreaming /\ mayArchiveClick /\ StartCamera
  \/ MetadataLoaded
  \/ mayArchiveClick /\ StopCamera

SpecArchive == Init /\ [][NextArchive]_vars

\* One session that records frames beyond the capacity of its histories:
\* closed and open eyes alternate, one frame per millisecond.
RecordEars(k) == IF k > RecordFrames THEN {} ELSE {IF k % 2 = 0 THEN 60 ELSE 5}

NextRecord ==
  \/ ~live /\ clicks < MaxRecordClicks /\ StartCamera
  \/ MetadataLoaded
  \/ frameDue /\ Tick(1)
  \/ \E l \in LoopIds : FrameRequested(l)
  \/ \E l \in LoopIds : \E ear \in RecordEars(assessment.frame + 1) : FaceFrame(l, ear)

SpecRecord == Init /\ [][NextRecord]_vars

\* The frame pipeline over several sessions: the operator stops the camera
\* while a detection loop runs and starts it again, so that frames are
\* processed with a session open, after it was archived, and in the next one.
maySessionClick == clicks < MaxSessionClicks
maySessionFrame == assessment.frame < MaxSessionFrames
maySessionLoop == onloadedmetadata.isStreaming => Cardinality(running) < MaxSessionLoops

NextSession ==
  \/ maySessionClick /\ video # "loading" /\ StartCamera
  \/ maySessionLoop /\ MetadataLoaded
  \/ frameDue /\ Tick(1)
  \/ \E l \in LoopIds : FrameRequested(l)
  \/ \E l \in LoopIds, ear \in SessionEars : maySessionFrame /\ FaceFrame(l, ear)
  \/ isStreaming /\ maySessionClick /\ StopCamera

SpecSession == Init /\ [][NextSession]_vars

\* The frame pipeline with an alert sink that may throw: whenever a frame
\* calls triggerAlert, the notification or vibration call may fail.
maySinkFrame == assessment.frame < MaxSinkFrames

NextSinkFailure ==
  \/ \E v \in SensitivityInputs : clicks = 0 /\ UpdateSensitivity(v)
  \/ ~live /\ clicks < MaxSinkClicks /\ StartCamera
  \/ MetadataLoaded
  \/ \E d \in EngineDeltas : frameDue /\ Tick(d)
  \/ \E l \in LoopIds : FrameRequested(l)
  \/ \E l \in LoopIds, ear \in SessionEars : maySinkFrame /\ FaceFrame(l, ear)
  \/ \E l \in LoopIds, ear \in SessionEars : maySinkFrame /\ FaceFrameSinkFails(l, ear)

SpecSinkFailure == Init /\ [][NextSinkFailure]_vars

\* The frame pipeline on landmarks.  Eye point sets: an open eye (EAR 0.60),
\* a closed eye (EAR 0), five points only, six coinciding points (h = 0 and
\* v1 = v2 = 0), coinciding corner points (h = 0).  Mouth point sets: the 12
\* points of a closed mouth (MAR 0) or of a yawn (MAR 0.80), and their first
\* 5, 6, 7 and 8 points.
OpenEye ==
  <<Point(0, 0), Point(0, 0), Point(0, 0), Point(3, 4), Point(3, 0), Point(3, 0)>>
ClosedEye ==
  <<Point(0, 0), Point(0, 0), Point(0, 0), Point(3, 4), Point(0, 0), Point(0, 0)>>
CoincidentEye == [i \in 1..6 |-> Point(3, 4)]
CornerEye ==
  <<Point(0, 0), Point(0, 0), Point(0, 0), Point(0, 0), Point(3, 0), Point(3, 0)>>
EyeSets == {OpenEye, ClosedEye, SubSeq(OpenEye, 1, 5), CoincidentEye, CornerEye}

ClosedMouth == [i \in 1..12 |-> IF i = 5 THEN Point(3, 4) ELSE Point(0, 0)]
YawnMouth ==
  [i \in 1..12 |-> IF i = 5 THEN Point(3, 4)
                   ELSE IF i \in {7, 8} THEN Point(0, 4) ELSE Point(0, 0)]
MouthSets ==
  {ClosedMouth, YawnMouth} \cup {SubSeq(YawnMouth, 1, n) : n \in 5..8}

mayLandmarkFrame == landmarks.frame < MaxLandmarkFrames

NextLandmarks ==
  \/ ~live /\ mayEngineClick /\ StartCamera
  \/ MetadataLoaded
  \/ \E d \in EngineDeltas : frameDue /\ Tick(d)
  \/ \E l \in LoopIds : FrameRequested(l)
  \/ \E l \in LoopIds, left \in EyeSets, right \in {OpenEye, ClosedEye}, mouth \in MouthSets :
       mayLandmarkFrame /\ LandmarkFrame(l, left, right, mouth)

SpecLandmarks == Init /\ [][NextLandmarks]_vars

\* The reconfiguration operations called with any arguments: the functions
\* are the page's, the sliders that call them (lines 1085-1104) are not part
\* of the run.
mayConfigClick == clicks < MaxConfigClicks

NextConfig ==
  \/ \E v \in ConfigThresholds : mayConfigClick /\ UpdateEARThreshold(v)
  \/ \E v \in ConfigSensitivities : mayConfigClick /\ UpdateSensitivity(v)
  \/ mayConfigClick /\ ResetSettings

SpecConfig == Init /\ [][NextConfig]_vars

(* ================================================================ claims *)
\* A step that processes a frame with a face.
FrameStep == assessment'.frame # assessment.frame

\* The history's last sample is the frame the assessment describes.
FrameRecorded ==
  /\ assessment.frame > 0
  /\ detectionHistory.timestamps # <<>>
  /\ detectionHistory.timestamps[Len(detectionHistory.timestamps)] = assessment.time
  /\ detectionHistory.earValues[Len(detectionHistory.earValues)] = assessment.ear

\* Index of the first sample of the run of consecutive closed-eye samples
\* that ends at index k of the EAR sequence ev (ev[k] is below thr).
RunStart(ev, thr, k) ==
  CHOOSE j \in 1..k : /\ \A i \in j..k : ev[i] < thr
                      /\ (j = 1 \/ ev[j - 1] >= thr)

\* The level the alert policy assigns to an assessment, "none" for no alert.
ClaimedLevel(a) ==
  IF a.isSustainedClosure THEN "critical"
  ELSE IF a.drowsinessScore.num > 80 * a.drowsinessScore.den THEN "critical"
  ELSE IF a.drowsinessScore.num > 60 * a.drowsinessScore.den THEN "high"
  ELSE IF a.drowsinessScore.num > 40 * a.drowsinessScore.den THEN "medium"
  ELSE IF a.isDrowsy THEN "low"
  ELSE "none"

\* C4: on every frame with a sustained closure the assessment is drowsy, its
\* score is at least 95 and its level is critical, whatever the average EAR,
\* the blink count and the low-EAR count are.
C4_SustainedForcesCritical ==
  (assessment.frame > 0 /\ assessment.isSustainedClosure)
    => /\ assessment.isDrowsy
       /\ assessment.drowsinessScore.den > 0
       /\ assessment.drowsinessScore.num >= 95 * assessment.drowsinessScore.den
       /\ assessment.alertLevel = "critical"

\* C5: every processed frame moves the closure tracker by the Open/Closed
\* relation: Open to Closed sets startTime to the frame's time; Closed to
\* Closed keeps startTime and reports now - startTime; Closed to Open records
\* lastDuration = now - startTime and clears startTime; Open to Open reports 0
\* and changes neither.
C5_ClosureTransitions ==
  [][FrameStep =>
       LET a == assessment'
           pre == detectionHistory
           post == detectionHistory'
           closed == a.ear < a.earThreshold
       IN /\ (pre.eyeClosureStartTime = null /\ closed) =>
               /\ post.eyeClosureStartTime = a.time
               /\ a.eyeClosureDuration = 0
               /\ post.lastEyeClosureDuration = pre.lastEyeClosureDuration
          /\ (pre.eyeClosureStartTime # null /\ closed) =>
               /\ post.eyeClosureStartTime = pre.eyeClosureStartTime
               /\ a.eyeClosureDuration = a.time - pre.eyeClosureStartTime
               /\ post.lastEyeClosureDuration = pre.lastEyeClosureDuration
          /\ (pre.eyeClosureStartTime # null /\ ~closed) =>
               /\ post.lastEyeClosureDuration = a.time - pre.eyeClosureStartTime
               /\ post.eyeClosureStartTime = null
               /\ a.eyeClosureDuration = 0
          /\ (pre.eyeClosureStartTime = null /\ ~closed) =>
               /\ a.eyeClosureDuration = 0
               /\ post.eyeClosureStartTime = null
               /\ post.lastEyeClosureDuration = pre.lastEyeClosureDuration
  ]_vars

\* A closure that lasted over several frames has just ended.
C5_Witness ==
  /\ FrameRecorded
  /\ assessment.frame >= 3
  /\ assessment.ear >= assessment.earThreshold
  /\ detectionHistory.eyeClosureStartTime = null
  /\ detectionHistory.lastEyeClosureDuration = 3000

\* C6: the sustained-closure boundary is 3000 ms.  A closed-eye frame is a
\* sustained closure exactly when the run of closed-eye frames it ends began
\* at least 3000 ms earlier (so not at 2999 ms), and the frame that ends a
\* run records the time since the run began as lastDuration (2999 when the
\* eyes open 2999 ms after they closed).
C6_SustainedBoundary ==
  FrameRecorded =>
    LET ev == detectionHistory.earValues
        ts == detectionHistory.timestamps
        n == Len(ev)
        thr == assessment.earThreshold
    IN IF ev[n] < thr
         THEN LET span == ts[n] - ts[RunStart(ev, thr, n)]
              IN /\ assessment.isSustainedClosure <=> span >= 3000
                 /\ span = 2999 => ~assessment.isSustainedClosure
         ELSE /\ ~assessment.isSustainedClosure
              /\ (n >= 2 /\ ev[n - 1] < thr) =>
                   detectionHistory.lastEyeClosureDuration
                     = ts[n] - ts[RunStart(ev, thr, n - 1)]

\* A closure of exactly 3000 ms, one millisecond after a frame at 2999 ms.
C6_Witness ==
  /\ FrameRecorded
  /\ assessment.isSustainedClosure
  /\ assessment.eyeClosureDuration = 3000
  /\ Len(detectionHistory.timestamps) >= 3
  /\ detectionHistory.timestamps[Len(detectionHistory.timestamps) - 1]
       = assessment.time - 1

\* The eyes open 2999 ms after they closed: lastDuration is 2999.
C6_Opened2999 ==
  /\ FrameRecorded
  /\ assessment.ear >= assessment.earThreshold
  /\ detectionHistory.lastEyeClosureDuration = 2999

\* C7: the level of a frame is derived in priority order (sustained closure,
\* score above 80, above 60, above 40, drowsy), and a frame on which none of
\* these holds raises no alert; an alert a frame raises carries the derived
\* level.
C7_LevelPriority ==
  [][FrameStep =>
       LET a == assessment'
           lv == ClaimedLevel(a)
       IN /\ lv # "none" => a.alertLevel = lv
          /\ lv = "none" => (~a.raised /\ emitted' = emitted /\ alertState' = alertState)
          /\ a.raised => /\ Len(emitted') = Len(emitted) + 1
                         /\ emitted'[Len(emitted')].level = lv
                         /\ alertState'.level = lv
  ]_vars

\* A frame on which no level applies: score at most 40 and not drowsy.
C7_Witness ==
  /\ assessment.frame > 0
  /\ ClaimedLevel(assessment) = "none"
  /\ ~assessment.raised

\* A frame that raised a low-level alert (the last case of the derivation).
C7_LowRaised ==
  /\ assessment.frame > 0
  /\ assessment.raised
  /\ assessment.alertLevel = "low"

\* The auto-dismiss delay of a level.
ClaimedTimeout(level) ==
  IF level = "critical" THEN 10000 ELSE IF level = "high" THEN 7000 ELSE 5000

\* The deadline of the alert that is shown.
ShownDeadline == alertState.timestamp + ClaimedTimeout(alertState.level)

C8_Expired ==
  /\ ~alertState.isActive
  /\ alertTimeoutRef # null
  /\ timers = {}
  /\ now = ShownDeadline

\* A step that raises an alert: an AlertEvent is emitted, a frame reports a
\* raised alert, or the alert state changes to an active one.
Fired ==
  \/ emitted' # emitted
  \/ (FrameStep /\ assessment'.raised)
  \/ (alertState' # alertState /\ alertState'.isActive)

\* C9: every firing, from Inactive or from Active at any level, leaves the
\* alert active with the level, message and time of that firing and emits
\* exactly one AlertEvent carrying them; a firing by a frame carries the
\* frame's level and message.
C9_FiringSetsActive ==
  [][Fired =>
       /\ alertState'.isActive
       /\ alertState'.timestamp = now
       /\ emitted' = Append(emitted, [level |-> alertState'.level,
                                      message |-> alertState'.message,
                                      timestamp |-> alertState'.timestamp])
       /\ FrameStep => /\ alertState'.level = assessment'.alertLevel
                       /\ alertState'.message = assessment'.alertMessage
  ]_vars

\* A frame raised an alert while an alert of another level was active.
C9_Witness ==
  /\ assessment.raised
  /\ assessment.activeBefore
  /\ assessment.levelBefore # assessment.alertLevel
  /\ alertState.isActive
  /\ alertState.timestamp = assessment.time
  /\ alertState.level = assessment.alertLevel
  /\ Len(emitted) >= 2

\* C10: dismissAlert leaves the alert inactive with no auto-dismiss timer
\* pending; applied to an inactive alert it changes neither the alert state
\* nor the timers, and applied twice it leaves what one application leaves.
C10_DismissIdempotent ==
  /\ [](LET d1 == dismissAlert(alertState, timers, alertTimeoutRef)
            d2 == dismissAlert(d1.alertState, d1.timers, d1.alertTimeoutRef)
        IN /\ ~d1.alertState.isActive
           /\ d1.timers = {}
           /\ d1.alertTimeoutRef = null
           /\ d2 = d1
           /\ ~alertState.isActive =>
                (d1.alertState = alertState /\ d1.timers = timers))
  /\ [][(alertTimeoutRef # null /\ alertTimeoutRef' = null) =>
          (~alertState'.isActive /\ timers' = {})]_vars

\* An active alert was dismissed before its deadline.
C10_Witness ==
  /\ ~alertState.isActive
  /\ alertTimeoutRef = null
  /\ timers = {}
  /\ emitted # <<>>
  /\ now < ShownDeadline

\* C1: a frame with a sustained closure, processed while the alert machine is
\* not Active(critical), raises a critical alert in that frame whatever
\* lastAlertTime is.
C1_SustainedAlwaysRaises ==
  [][(/\ FrameStep
      /\ assessment'.isSustainedClosure
      /\ ~(alertState.isActive /\ alertState.level = "critical"))
     => (/\ assessment'.raised
         /\ assessment'.alertLevel = "critical"
         /\ alertState'.isActive
         /\ alertState'.level = "critical"
         /\ alertState'.timestamp = now)]_vars

\* C2: a frame raises a non-critical alert only when more than alertCooldown
\* ms have passed since lastAlertTime, and the firing sets lastAlertTime to
\* the firing time.
C2_CooldownGate ==
  [][(/\ FrameStep
      /\ assessment'.raised
      /\ assessment'.alertLevel # "critical")
     => (/\ now - lastAlertTime > config.alertCooldown
         /\ lastAlertTime' = now)]_vars

\* The history holds every processed frame, all of them with EAR 0.05 under
\* the threshold 0.25, and the last one is 3000 to 3100 ms after the first.
ConstantClosure ==
  /\ FrameRecorded
  /\ config.earThreshold = 25
  /\ assessment.earThreshold = 25
  /\ Len(detectionHistory.earValues) = assessment.frame
  /\ \A i \in 1..Len(detectionHistory.earValues) : detectionHistory.earValues[i] = 5
  /\ assessment.time - detectionHistory.timestamps[1] >= 3000
  /\ assessment.time - detectionHistory.timestamps[1] <= 3100

\* The time of the first frame at or after 3000 ms of closure.
FirstSustainedTime ==
  LET ts == detectionHistory.timestamps
      k == CHOOSE i \in 1..Len(ts) :
             /\ ts[i] - ts[1] >= 3000
             /\ \A j \in 1..(i - 1) : ts[j] - ts[1] < 3000
  IN ts[k]

\* C3: with EAR constantly 0.05 for 3100 ms, a frame from 3000 ms of closure
\* onwards is a sustained closure of score >= 95 and level critical, and from
\* 3000 ms onwards exactly one critical AlertEvent has been emitted, at the
\* first such frame.
C3_ConstantClosureScenario ==
  ConstantClosure =>
    /\ assessment.isSustainedClosure
    /\ assessment.drowsinessScore.den > 0
    /\ assessment.drowsinessScore.num >= 95 * assessment.drowsinessScore.den
    /\ assessment.alertLevel = "critical"
    /\ LET late == {i \in 1..Len(emitted) :
                      /\ emitted[i].level = "critical"
                      /\ emitted[i].timestamp - detectionHistory.timestamps[1] >= 3000}
       IN /\ Cardinality(late) = 1
          /\ \A i \in late : emitted[i].timestamp = FirstSustainedTime

\* A step that stops a running monitoring (only stopCamera clears isStreaming).
StopStep == isStreaming /\ ~isStreaming'

\* C11: in the state reached right after stopping, no auto-dismiss timer is
\* pending.
C11_StopCancelsTimer == [][StopStep => timers' = {}]_vars

\* The frame is the first one processed in a session that was started after
\* monitoring was stopped, and the stop came after the last processed frame.
FirstFrameAfterRestart ==
  /\ FrameStep
  /\ assessment.frame > 0
  /\ analytics.sessions # <<>>
  /\ analytics.sessions[1].endTime > assessment.time
  /\ analytics.currentSession # <<>>
  /\ analytics.currentSession[1].startTime >= analytics.sessions[1].endTime
  /\ analytics.currentSession[1].earHistory = <<>>

\* C12: the first frame processed after a stop and a restart, with the eyes
\* closed, reports a closure duration of 0: no closure start time recorded
\* before the stop is carried over.
C12_CleanRestart ==
  [][(FirstFrameAfterRestart /\ assessment'.ear < assessment'.earThreshold)
       => (/\ assessment'.eyeClosureDuration = 0
           /\ detectionHistory'.eyeClosureStartTime = now)]_vars

\* C13: when the eyes were closed before a run of frames with no face and are
\* closed on the first frame with a face after it, the closure duration of
\* that frame leaves out the time with no face, and the frame is a sustained
\* closure only if the time with a face alone reaches 3000 ms.
C13_NoFaceGapExcluded ==
  [][(/\ FrameStep
      /\ assessment'.noFaceGap > 0
      /\ assessment'.closureBefore # null
      /\ assessment'.ear < assessment'.earThreshold)
     => LET seen == now - assessment'.closureBefore - assessment'.noFaceGap
        IN /\ assessment'.eyeClosureDuration <= seen
           /\ assessment'.isSustainedClosure => seen >= 3000]_vars

\* C16: the drowsiness score of every processed frame is a number from 0 to
\* 100, for every EAR the geometry yields (0, NaN and Infinity on too-short
\* and degenerate point sets included) and every history content.
C16_ScoreInRange ==
  assessment.frame > 0 =>
    /\ assessment.drowsinessScore.den > 0
    /\ assessment.drowsinessScore.num >= 0
    /\ assessment.drowsinessScore.num <= 100 * assessment.drowsinessScore.den

\* C20: on every frame of an open session, alertsByLevel[L] grows by one
\* exactly when the frame raised an alert of level L, so that it counts the
\* level-L alerts raised during the session.
C20_AlertsByLevel ==
  [][(FrameStep /\ analytics.currentSession # <<>>)
       => /\ analytics'.currentSession # <<>>
          /\ \A L \in Levels :
               analytics'.currentSession[1].alertsByLevel[L]
                 = analytics.currentSession[1].alertsByLevel[L]
                   + (IF assessment'.raised /\ assessment'.alertLevel = L THEN 1 ELSE 0)
  ]_vars

\* C14: the history buffer never holds more than 100 samples, and every
\* processed frame appends its sample after evicting the oldest one of a
\* full buffer: the buffer holds the last 100 inserted samples in insertion
\* order.
C14_HistoryBounded ==
  /\ [](/\ Len(detectionHistory.earValues) <= 100
        /\ Len(detectionHistory.timestamps) <= 100)
  /\ [][FrameStep =>
          LET pre == detectionHistory
              post == detectionHistory'
              full == Len(pre.earValues) >= 100
          IN /\ post.earValues =
                  Append(IF full THEN Tail(pre.earValues) ELSE pre.earValues,
                         assessment'.ear)
             /\ post.timestamps =
                  Append(IF full THEN Tail(pre.timestamps) ELSE pre.timestamps, now)
     ]_vars

\* The buffer is full after more than 100 + 1 insertions: it begins with the
\* sample of frame number (frames - 99).
C14_Witness ==
  /\ FrameRecorded
  /\ assessment.frame >= 102
  /\ Len(detectionHistory.earValues) = 100
  /\ Len(detectionHistory.timestamps) = 100
  /\ detectionHistory.timestamps[1] < detectionHistory.timestamps[100]

\* C15: earValues, timestamps and blinkStates have the same length in every
\* state, a blink flag sits only on a closed-eye sample, and every processed
\* frame evicts and appends the blink flag in step with the sample.
C15_ParallelSequences ==
  /\ [](/\ Len(detectionHistory.earValues) = Len(detectionHistory.timestamps)
        /\ Len(detectionHistory.blinkStates) = Len(detectionHistory.timestamps)
        /\ \A i \in 1..Len(detectionHistory.blinkStates) :
             detectionHistory.blinkStates[i] =>
               Less(detectionHistory.earValues[i], DefaultEarThreshold))
  /\ [][FrameStep =>
          LET pre == detectionHistory
              post == detectionHistory'
              full == Len(pre.timestamps) >= 100
              flag == /\ Less(assessment'.ear, assessment'.earThreshold)
                      /\ assessment'.eyeClosureDuration < 500
          IN post.blinkStates =
               Append(IF full THEN Tail(pre.blinkStates) ELSE pre.blinkStates, flag)
     ]_vars

\* After evictions the buffer holds samples with and without a blink flag.
C15_Witness ==
  /\ FrameRecorded
  /\ assessment.frame > 101
  /\ Len(detectionHistory.blinkStates) = 100
  /\ Len(detectionHistory.earValues) = 100
  /\ \E i, j \in 1..100 : /\ detectionHistory.blinkStates[i]
                          /\ ~detectionHistory.blinkStates[j]
                          /\ detectionHistory.earValues[j] >= DefaultEarThreshold

\* The history was emptied by resetSettings after frames were processed.
C15_AfterReset ==
  /\ assessment.frame > 0
  /\ detectionHistory.earValues = <<>>
  /\ detectionHistory.blinkStates = <<>>

\* The fractions a/b and c/d (b, d > 0) are the same number.
SameRatio(a, b, c, d) ==
  /\ a \div b = c \div d
  /\ (a % b) * d = (c % d) * b

\* C17: without sustained closure the score is min(100, (earScore +
\* blinkScore) / 2), earScore = max(0, (earThreshold - avgEAR) / earThreshold
\* * 100), blinkScore = max(0, (15 - recentBlinks) / 15 * 100): it is 0 at
\* avgEAR = earThreshold with 15 recent blinks, and the blink term is 0 from
\* 15 recent blinks on.
C17_ScoreFormula ==
  (FrameRecorded /\ ~assessment.isSustainedClosure) =>
    LET ev == detectionHistory.earValues
        n == Len(ev)
        sum == SeqSum(ev)
        thr == assessment.earThreshold
        rb == assessment.blinkRate
        E == IF thr * n - sum > 0 THEN thr * n - sum ELSE 0
        B == IF 15 - rb > 0 THEN 15 - rb ELSE 0
        \* (100 * E / (thr * n) + 100 * B / 15) / 2
        cNum == 100 * 15 * E + 100 * thr * n * B
        cDen == 2 * 15 * thr * n
        sc == assessment.drowsinessScore
    IN /\ sc.den > 0
       /\ IF cNum > 100 * cDen THEN sc.num = 100 * sc.den
          ELSE SameRatio(sc.num, sc.den, cNum, cDen)
       /\ (sum = thr * n /\ rb = 15) => sc.num = 0
       /\ rb >= 15 => SameRatio(sc.num, sc.den, 100 * E, 2 * thr * n)

\* The average EAR equals the threshold and 15 blinks are recent: score 0.
C17_Witness ==
  /\ FrameRecorded
  /\ ~assessment.isSustainedClosure
  /\ SeqSum(detectionHistory.earValues)
       = assessment.earThreshold * Len(detectionHistory.earValues)
  /\ assessment.blinkRate = 15
  /\ assessment.drowsinessScore.num = 0

\* More than 15 recent blinks with a positive EAR term.
C17_ManyBlinks ==
  /\ FrameRecorded
  /\ ~assessment.isSustainedClosure
  /\ assessment.blinkRate > 15
  /\ assessment.drowsinessScore.num > 0

\* C18: isDrowsy holds exactly when at least 0.8 * consecutiveFrames of the
\* last consecutiveFrames samples (fewer in a shorter history) are below the
\* threshold, or the closure is sustained; the sequence 0.30, 0.30 and eight
\* times 0.10 at threshold 0.25 and consecutiveFrames 8 gives a count of 8
\* and isDrowsy.
C18_DrowsyRule ==
  FrameRecorded =>
    LET ev == detectionHistory.earValues
        n == Len(ev)
        cf == assessment.consecutiveFrames
        first == IF n - cf + 1 > 1 THEN n - cf + 1 ELSE 1
        cnt == Cardinality({i \in first..n : Less(ev[i], assessment.earThreshold)})
    IN /\ assessment.recentLowEARCount = cnt
       /\ assessment.isDrowsy <=> (10 * cnt >= 8 * cf \/ assessment.isSustainedClosure)
       /\ (/\ ev = <<30, 30, 10, 10, 10, 10, 10, 10, 10, 10>>
           /\ assessment.earThreshold = 25
           /\ cf = 8) => (cnt = 8 /\ assessment.isDrowsy)

\* The tenth frame of the sequence 0.30, 0.30, 0.10 x 8.
C18_Witness ==
  /\ FrameRecorded
  /\ assessment.frame = 10
  /\ detectionHistory.earValues = <<30, 30, 10, 10, 10, 10, 10, 10, 10, 10>>
  /\ assessment.earThreshold = 25
  /\ assessment.consecutiveFrames = 8
  /\ assessment.recentLowEARCount = 8
  /\ assessment.isDrowsy

\* Seven of the last eight samples are below the threshold: drowsy.
C18_SevenOfEight ==
  /\ FrameRecorded
  /\ assessment.consecutiveFrames = 8
  /\ assessment.recentLowEARCount = 7
  /\ assessment.isDrowsy
  /\ ~assessment.isSustainedClosure

\* C19: blinkRate is the number of retained samples with a blink flag and a
\* timestamp strictly greater than now - 60000, and the flag of a frame's
\* sample is true exactly when the eyes are closed on it with a closure
\* duration below 500 ms.
C19_RecentBlinks ==
  FrameRecorded =>
    LET ts == detectionHistory.timestamps
        bs == detectionHistory.blinkStates
        n == Len(ts)
    IN /\ Len(bs) = n
       /\ assessment.blinkRate =
            Cardinality({i \in 1..n : bs[i] /\ ts[i] > assessment.time - 60000})
       /\ bs[n] <=> (/\ Less(assessment.ear, assessment.earThreshold)
                     /\ assessment.eyeClosureDuration < 500)

\* A retained blink sample is exactly 60000 ms old and is not counted, and
\* the frame itself is a closure of 500 ms or more (no blink flag).
C19_Witness ==
  /\ FrameRecorded
  /\ Less(assessment.ear, assessment.earThreshold)
  /\ assessment.eyeClosureDuration >= 500
  /\ ~detectionHistory.blinkStates[Len(detectionHistory.blinkStates)]
  /\ \E i \in 1..Len(detectionHistory.timestamps) :
       /\ detectionHistory.blinkStates[i]
       /\ detectionHistory.timestamps[i] = assessment.time - 60000
  /\ assessment.blinkRate = 0

\* Retained blink samples older than a minute are left out while newer ones
\* are counted.
C19_OldAndNew ==
  /\ FrameRecorded
  /\ assessment.blinkRate >= 1
  /\ \E i \in 1..Len(detectionHistory.timestamps) :
       /\ detectionHistory.blinkStates[i]
       /\ detectionHistory.timestamps[i] < assessment.time - 60000

\* A call of stopCamera, the caller of endSession (line 834).
StopCall == clicks' # clicks /\ video' = "none" /\ detectionStatus' = "idle"

\* C21: endSession on an open session archives it with endTime set to the
\* time of the call and clears the open-session pointer; the archive never
\* holds more than 50 sessions, and a session archived into a full archive
\* drops the oldest archived session, the others keeping their order.
C21_EndSessionArchives ==
  /\ [](Len(analytics.sessions) <= 50)
  /\ [][(StopCall /\ analytics.currentSession # <<>>) =>
          LET cur == analytics.currentSession[1]
              old == analytics.sessions
              new == analytics'.sessions
          IN /\ analytics'.currentSession = <<>>
             /\ new[1].id = cur.id
             /\ new[1].startTime = cur.startTime
             /\ new[1].endTime = now
             /\ Len(new) = (IF Len(old) = 50 THEN 50 ELSE Len(old) + 1)
             /\ \A i \in 2..Len(new) : new[i] = old[i - 1]
             /\ Len(old) = 50 =>
                  \A i \in 1..49 : old[50].startTime < old[i].startTime
        ]_vars

\* The archive is full and the session that was archived first has left it.
C21_Witness ==
  /\ Len(analytics.sessions) = 50
  /\ analytics.currentSession = <<>>
  /\ \A i \in 1..50 : analytics.sessions[i].startTime > 100000
  /\ analytics.sessions[1].endTime = now

\* C22: endSession with no open session changes nothing of the analytics
\* state: the archive, the open-session pointer and the real-time series.
C22_EndSessionNoOp ==
  [][(StopCall /\ analytics.currentSession = <<>>) => analytics' = analytics]_vars

\* stopCamera was clicked twice for one session: one session is archived.
C22_Witness ==
  /\ clicks = 3
  /\ ~isStreaming
  /\ analytics.currentSession = <<>>
  /\ Len(analytics.sessions) = 1
  /\ analytics.sessions[1].startTime = 100000

\* s with x recorded under a capacity of cap entries: x is appended, and the
\* oldest entry leaves when s is full.
Recorded(s, x, cap) == IF Len(s) < cap THEN Append(s, x) ELSE Append(Tail(s), x)

\* C23: the real-time series never holds more than 300 points and the open
\* session's EAR and drowsiness histories never more than 1000 entries each;
\* every recorded frame is appended to each of them, and when one is full its
\* oldest entry is evicted, the others keeping their order.
C23_BoundedSeries ==
  /\ [](/\ Len(analytics.realTimeData) <= 300
        /\ analytics.currentSession # <<>> =>
             /\ Len(analytics.currentSession[1].earHistory) <= 1000
             /\ Len(analytics.currentSession[1].drowsinessHistory) <= 1000)
  /\ [][FrameStep =>
          LET a == assessment'
              pt == analytics'.realTimeData[Len(analytics'.realTimeData)]
          IN /\ pt.timestamp = a.time /\ pt.ear = a.ear
             /\ pt.drowsiness = a.drowsinessScore
             /\ analytics'.realTimeData = Recorded(analytics.realTimeData, pt, 300)
             /\ analytics.currentSession # <<>> =>
                  /\ analytics'.currentSession # <<>>
                  /\ analytics'.currentSession[1].earHistory =
                       Recorded(analytics.currentSession[1].earHistory,
                                [timestamp |-> a.time, value |-> a.ear], 1000)
                  /\ analytics'.currentSession[1].drowsinessHistory =
                       Recorded(analytics.currentSession[1].drowsinessHistory,
                                [timestamp |-> a.time, value |-> a.drowsinessScore], 1000)
        ]_vars

\* All three series are full and each has evicted its oldest entries: the
\* session has recorded more than 1000 frames.
C23_Witness ==
  /\ assessment.frame > 1000
  /\ analytics.currentSession # <<>>
  /\ Len(analytics.realTimeData) = 300
  /\ Len(analytics.currentSession[1].earHistory) = 1000
  /\ Len(analytics.currentSession[1].drowsinessHistory) = 1000
  /\ analytics.currentSession[1].earHistory[1].timestamp
       > analytics.currentSession[1].startTime + 1
  /\ analytics.currentSession[1].earHistory[1000].timestamp = assessment.time
  /\ analytics.realTimeData[1].timestamp = assessment.time - 299

\* The score m is the maximum of the scores recorded in the history h, 0
\* when nothing was recorded.
IsMaxRecorded(m, h) ==
  /\ m.den > 0
  /\ h = <<>> => m.num = 0
  /\ h # <<>> =>
       /\ \E i \in 1..Len(h) : h[i].value.num * m.den = m.num * h[i].value.den
       /\ \A i \in 1..Len(h) : h[i].value.num * m.den <= m.num * h[i].value.den

\* C24: the maxDrowsinessScore of a session, open or archived, is the maximum
\* of the drowsiness scores recorded in that session (0 when nothing was
\* recorded), and it never decreases while the session is open.
C24_MaxScore ==
  /\ [](/\ analytics.currentSession # <<>> =>
             IsMaxRecorded(analytics.currentSession[1].maxDrowsinessScore,
                           analytics.currentSession[1].drowsinessHistory)
        /\ \A i \in 1..Len(analytics.sessions) :
             IsMaxRecorded(analytics.sessions[i].maxDrowsinessScore,
                           analytics.sessions[i].drowsinessHistory))
  /\ [][(/\ analytics.currentSession # <<>>
         /\ analytics'.currentSession # <<>>
         /\ analytics'.currentSession[1].id = analytics.currentSession[1].id
         /\ clicks' = clicks)
        => LET m == analytics.currentSession[1].maxDrowsinessScore
               n == analytics'.currentSession[1].maxDrowsinessScore
           IN n.num * m.den >= m.num * n.den]_vars

\* C25: an archived session is never changed: in every step the archive
\* stays as it is, or endSession puts the session that was open in front of
\* the archived ones, which keep their contents and their order (the one at
\* position 50 leaving).
C25_ArchiveFrozen ==
  [][LET old == analytics.sessions
         new == analytics'.sessions
     IN \/ new = old
        \/ /\ StopCall
           /\ analytics.currentSession # <<>>
           /\ new[1].id = analytics.currentSession[1].id
           /\ Len(new) = (IF Len(old) = 50 THEN 50 ELSE Len(old) + 1)
           /\ \A i \in 2..Len(new) : new[i] = old[i - 1]
    ]_vars

\* After a session was archived a frame was processed with no session open,
\* and a later session recorded frames with alert levels and was archived.
C25_Witness ==
  /\ Len(analytics.sessions) = 2
  /\ analytics.sessions[2].endTime <= analytics.sessions[1].startTime
  /\ analytics.sessions[1].drowsinessHistory # <<>>
  /\ \E l \in {"medium", "high", "critical"} : analytics.sessions[1].alertsByLevel[l] > 0
  /\ \E i \in 1..Len(analytics.realTimeData) :
       /\ analytics.realTimeData[i].timestamp >= analytics.sessions[2].endTime
       /\ analytics.realTimeData[i].timestamp <= analytics.sessions[1].startTime
       /\ \A s \in 1..2 : \A j \in 1..Len(analytics.sessions[s].drowsinessHistory) :
            analytics.sessions[s].drowsinessHistory[j].timestamp
              # analytics.realTimeData[i].timestamp

\* C26: the alert state changes only in triggerAlert (an AlertEvent is
\* emitted), in dismissAlert (the stored timer handle is cleared) and in the
\* auto-dismiss timer callback (a pending timer has run).  A processed frame
\* that raises no alert, a configuration change, resetSettings, and a session
\* start, record or end leave it unchanged.
C26_AlertStateOwners ==
  [][/\ alertState' # alertState =>
          \/ Len(emitted') = Len(emitted) + 1
          \/ (alertTimeoutRef' = null /\ clicks' = clicks + 1)
          \/ (\E t \in timers : now >= t.due /\ timers' = timers \ {t})
     /\ (FrameStep /\ ~assessment'.raised) => alertState' = alertState
     /\ config' # config => alertState' = alertState
     /\ (clicks' # clicks /\ detectionHistory' # detectionHistory) => alertState' = alertState
     /\ analytics' # analytics => (alertState' = alertState \/ assessment'.raised)
    ]_vars

\* A frame was processed and recorded in the open session while an alert was
\* active, raised no alert, and the alert is still active.
C26_Witness ==
  /\ alertState.isActive
  /\ assessment.frame > 0
  /\ assessment.activeBefore
  /\ ~assessment.raised
  /\ FrameRecorded
  /\ analytics.currentSession # <<>>
  /\ analytics.currentSession[1].earHistory # <<>>

\* The operator has reset the settings while the alert a frame raised was
\* active; the alert is as the frame raised it.
C26_AfterReset ==
  /\ alertState.isActive
  /\ assessment.raised
  /\ alertState.timestamp = assessment.time
  /\ detectionHistory = EmptyHistory

\* A step that processes a frame whose alert could not be delivered.
SinkFailedStep == FrameStep /\ assessment'.sinkFailed

\* C27: a frame whose alert delivery fails leaves the engine as a successful
\* delivery does: the alert is active with its auto-dismiss timer armed,
\* lastAlertTime is updated when the alert came from the cooldown branch, the
\* frame's statistics and analytics are updated, and the next frame is
\* requested.
C27_SinkFailureHarmless ==
  [][SinkFailedStep =>
       LET a == assessment'
       IN /\ alertState'.isActive
          /\ alertState'.level = a.alertLevel
          /\ alertState'.timestamp = now
          /\ timers' = {[id |-> alertTimeoutRef',
                         due |-> now + ClaimedTimeout(a.alertLevel)]}
          /\ ~(a.isSustainedClosure /\ a.capLevel # "critical") => lastAlertTime' = now
          /\ stats'.currentEAR = a.ear
          /\ stats'.drowsinessScore = a.drowsinessScore
          /\ stats'.faceDetected
          /\ analytics'.realTimeData # <<>>
          /\ analytics'.realTimeData[Len(analytics'.realTimeData)].timestamp = now
          /\ \E l \in LoopIds : loops'[l].pc = "scheduled"
  ]_vars

\* A step that processes a frame given as landmarks.
LandmarkStep == landmarks'.frame # landmarks.frame

\* C28: the geometry extractor returns 0 for every eye point set of fewer
\* than 6 points and for every mouth point set of fewer than 8 points; it
\* raises no error.
C28_ShortSetsYieldZero ==
  landmarks.frame > 0 =>
    /\ Len(landmarks.left) < 6 => landmarks.leftEAR = 0
    /\ Len(landmarks.right) < 6 => landmarks.rightEAR = 0
    /\ Len(landmarks.mouth) < 8 => landmarks.mouthAR = 0

\* The horizontal reference distance of an eye point set of 6 points or more
\* is zero: its corner points coincide.
ZeroWidth(eyePoints) == Len(eyePoints) >= 6 /\ eyePoints[1] = eyePoints[4]

\* C29: an eye point set whose horizontal reference distance is zero yields
\* the ratio 0, and the frame produces an assessment whose avgEAR and
\* drowsinessScore are finite numbers.
C29_ZeroWidthYieldsZero ==
  [][(LandmarkStep /\ (ZeroWidth(landmarks'.left) \/ ZeroWidth(landmarks'.right))) =>
       /\ ZeroWidth(landmarks'.left) => landmarks'.leftEAR = 0
       /\ ZeroWidth(landmarks'.right) => landmarks'.rightEAR = 0
       /\ landmarks'.avgEAR >= 0 /\ landmarks'.avgEAR <= 100
       /\ assessment'.frame = assessment.frame + 1
       /\ assessment'.ear = landmarks'.avgEAR
       /\ assessment'.drowsinessScore.den > 0
  ]_vars

\* C30: the mouth landmarks of a frame do not matter to what the frame does.
\* For each mouth point set the frame could have carried instead, the run
\* that differs in this set only ends the frame before the analysis exactly
\* when this run does: a frame that one of the two runs analyses and records
\* (score, isDrowsy, level, alerts, history, session) the other one does too.
C30_MouthCosmetic ==
  [][LandmarkStep =>
       \A mouth \in MouthSets :
         (calculateMouthAspectRatio(mouth) = TypeError)
           <=> (/\ assessment' = assessment
                /\ detectionHistory' = detectionHistory
                /\ analytics' = analytics
                /\ alertState' = alertState
                /\ emitted' = emitted)
  ]_vars

\* C31: after any sequence of updateEARThreshold, updateSensitivity and
\* resetSettings calls, earThreshold lies within 0.15 to 0.35 and
\* consecutiveFrames within 2 to 20.
C31_ConfigInDomain ==
  /\ config.earThreshold >= 15 /\ config.earThreshold <= 35
  /\ config.consecutiveFrames >= 2 /\ config.consecutiveFrames <= 20

\* C32: while monitoring is off (stopCamera has run and startCamera has not
\* run since) no frame is analysed: no history sample is appended, no alert
\* is raised, no analytics point is recorded and no new animation frame is
\* scheduled.
C32_NoFrameAfterStop ==
  [][~isStreaming =>
       /\ ~FrameStep
       /\ detectionHistory' = detectionHistory
       /\ emitted' = emitted
       /\ analytics'.realTimeData = analytics.realTimeData
       /\ \A l \in LoopIds : loops'[l].pc = "scheduled" => loops[l].pc = "scheduled"
  ]_vars

\* C33: when the video's metadata is loaded after a successful startCamera,
\* the first detectFaceAndEyes call passes its guards (it awaits the
\* landmark detector), and every frame processed while monitoring is on ends
\* by scheduling the next call.
C33_LoopRunsAfterStart ==
  [][/\ (video = "loading" /\ video' = "ready" /\ isStreaming) =>
          \E l \in LoopIds : loops'[l].pc = "awaiting"
     /\ (FrameStep /\ isStreaming) =>
          \E l \in LoopIds : loops'[l].pc = "scheduled"
  ]_vars

\* C34: every frame is evaluated against the configuration, the alert level
\* and the lastAlertTime that are current when it is processed.
C34_CurrentValuesUsed ==
  [][FrameStep =>
       /\ assessment'.earThreshold = config.earThreshold
       /\ assessment'.consecutiveFrames = config.consecutiveFrames
       /\ assessment'.capLevel = alertState.level
       /\ assessment'.capLastAlert = lastAlertTime
  ]_vars

C35_Inactive ==
  /\ emitted # <<>>
  /\ ~alertState.isActive
  /\ timers = {}


\* C36: across any sequence of starts and stops, at most one frame-processing
\* call is in flight (awaiting the detector) or scheduled (an animation-frame
\* request pending) at any time.
C36_SingleLoop == Cardinality(running) <= 1


\* C37: the totalBlinks and totalAlerts of an archived session count only what
\* happened between its start and its end: totalAlerts is the number of alerts
\* raised in that interval, and every blink in totalBlinks belongs to a frame
\* processed in that interval, so a session without frames has no blinks.
C37_SessionTotals ==
  \A i \in 1..Len(analytics.sessions) :
    LET s == analytics.sessions[i]
        raisedIn == {k \in 1..Len(emitted) :
                       /\ emitted[k].timestamp >= s.startTime
                       /\ emitted[k].timestamp <= s.endTime}
        framesIn == {k \in 1..Len(detectionHistory.timestamps) :
                       /\ detectionHistory.timestamps[k] >= s.startTime
                       /\ detectionHistory.timestamps[k] <= s.endTime}
    IN /\ s.totalAlerts = Cardinality(raisedIn)
       /\ s.totalBlinks <= Cardinality(framesIn)


\* C38: one continuous eye closure (a maximal run of consecutive samples below
\* the eye-closure threshold of 0.25) contributes at most one blink to the
\* blink rate, however many frames it spans: the blink rate never exceeds the
\* number of closures in the history.
C38_OneBlinkPerClosure ==
  LET ears == detectionHistory.earValues
      closureStarts == {k \in 1..Len(ears) :
                          /\ ears[k] < 25
                          /\ (k = 1 \/ ears[k - 1] >= 25)}
  IN stats.blinkRate <= Cardinality(closureStarts)


\* C39: a processed frame raises an alert only when its assessment has
\* isDrowsy = true (sustained closure included).  A frame whose score exceeds
\* 40, 60 or 80 while isDrowsy is false raises no alert and leaves the alert
\* state and the alert time alone, even when the cooldown has elapsed.
C39_AlertOnlyWhenDrowsy ==
  [][FrameStep =>
       LET a == assessment'
       IN /\ Len(emitted') > Len(emitted) => a.isDrowsy
          /\ a.isSustainedClosure => a.isDrowsy
          /\ ~a.isDrowsy =>
               /\ ~a.raised
               /\ emitted' = emitted
               /\ alertState' = alertState
               /\ lastAlertTime' = lastAlertTime
  ]_vars

\* A frame scored above 80 (level critical) that is not drowsy, processed with
\* the cooldown of 3000 ms elapsed: no alert was raised.
C39_Witness ==
  /\ FrameRecorded
  /\ ~assessment.isDrowsy
  /\ ScoreGT(assessment.drowsinessScore, 80)
  /\ assessment.alertLevel = "critical"
  /\ assessment.time - assessment.capLastAlert > 3000
  /\ assessment.time - assessment.lastAlertBefore > 3000
  /\ ~assessment.raised
  /\ emitted = <<>>

\* A drowsy frame raised an alert.
C39_Raised ==
  /\ FrameRecorded
  /\ assessment.isDrowsy
  /\ assessment.raised
  /\ emitted # <<>>
  /\ emitted[1].timestamp = assessment.time

====
